---- MODULE Spec2Model ----
(***************************************************************************)
(* Verification model of the asynchronous document pipeline of the IDP     *)
(* service: the background worker (app/services/background_worker.py), the *)
(* queue, job-store and object-store adapters it drives, and the pure      *)
(* algorithms of the extraction orchestrator (app/services/                *)
(* ai_orchestrator.py).                                                    *)
(*                                                                         *)
(* Specifications:                                                         *)
(*   Spec           the worker processes, the main queue, the dead-letter  *)
(*                  queue, the job store and the object store              *)
(*   SpecLive       the same without worker deaths, under fair scheduling  *)
(*   SpecSolo       the same with a single worker process                  *)
(*   SpecReader     the retrying object reader, one attempt per step       *)
(*   SpecConsensus  the per-field resolver over two backend results        *)
(*   SpecMerge      the merge of batch results into the accumulator        *)
(*   SpecRoute      the dispatcher's choice between the inline and the     *)
(*                  queued path                                            *)
(*   SpecDeadLetter the message written to the failed-processing queue     *)
(*   SpecPersistence the worker's reading of the persistence value         *)
(*   SpecJobStore   the jobs container under the adapter's and the         *)
(*                  worker's status writes                                 *)
(*   SpecCascade    the batches of pages the cascade sends to the backend  *)
(*   SpecCalls      the order of the backend calls of the dual strategies  *)
(*   SpecDispatch   one request on the asynchronous path next to a worker  *)
(***************************************************************************)
EXTENDS Integers, Sequences, FiniteSets, TLC

VARIABLES
    queue_name,   \* settings.azure_storage_queue_name of this deployment
    msgs,         \* main queue: per job, the state of the message carrying it
    dlq,          \* failed-processing queue: number of messages per job_id
    jobs,         \* jobs container: per job_id, the job record (its status)
    docRecs,      \* documents container: number of records per job_id
    extRecs,      \* extractions container: number of records per job_id
    blobOrig,     \* object store: uploaded object present in the primary container
    blobProc,     \* object store: number of copies in the "processed" container
    persist,      \* the message's persistence flag, as the worker parses it
    msg_mode,     \* the message's processing_mode
    pc,           \* per worker: position in _process_queue / _process_document
    wjob,         \* per worker: job_id of the message in hand (0: none)
    wreceipt,     \* per worker: pop receipt of the message in hand
    started,      \* per worker: processing_started
    status_write_failed, \* per worker: a status write of steps 1-7 did not land
    move_returned, \* per worker: what move_to_processed returned in this handling
    cause,        \* per worker: the step that raised in this handling
    result,       \* per worker: processing_result of _process_document
    deliveries,   \* number of messages handed to workers so far
    crashes,      \* number of worker process deaths so far
    crashedJob,   \* per job: a worker died after its step 1 for this job
    reader,       \* SpecReader: the retry settings and the reader's state
    cons,         \* SpecConsensus: two backend results and the resolved fields
    mrg,          \* SpecMerge: the cascade accumulator and the last batch merged
    route,        \* SpecRoute: a request and the path the dispatcher gave it
    dl,           \* SpecDeadLetter: a failed message and its dead-letter copy
    pp,           \* SpecPersistence: a persistence value and what the worker reads
    jst,          \* SpecJobStore: the jobs container and the last write made to it
    casc,         \* SpecCascade: the pages of a document and the batches sent
    orch,         \* SpecCalls: the backend calls of one strategy, as they run
    disp          \* SpecDispatch: one request on the asynchronous path and a worker

vars == << queue_name, msgs, dlq, jobs, docRecs, extRecs, blobOrig, blobProc,
           persist, msg_mode, pc, wjob, wreceipt, started, status_write_failed, move_returned, cause, result,
           deliveries, crashes, crashedJob,
           reader, cons, mrg, route, dl, pp, jst, casc, orch, disp >>

----------------------------------------------------------------------------
(* Bounds of the model *)

NumJobs == 1

NumWorkers == 2

MaxDeliveries == 2

MaxCrashes == 1

Jobs == 1 .. NumJobs

Workers == 1 .. NumWorkers

----------------------------------------------------------------------------
(* Queue names *)

\* config.py: azure_storage_queue_name default
IdpProcessingQueue == "idp-processing-queue"

\* QueueStorageService.document_processing_queue
DocumentProcessingQueue == "document-processing-queue"

QueueNames == { IdpProcessingQueue, DocumentProcessingQueue }

----------------------------------------------------------------------------
(* Job store (Cosmos DB jobs container) *)

JobStatuses == { "not_found", "pending", "processing", "completed", "failed" }

\* The job_id the dispatcher generates (uuid4) and puts in the queue message.
JobIdKey(j) == << "uuid", j >>

\* The record id create_processing_job assigns: "job_" + a fresh uuid4.
JobDbId(j) == << "job_uuid", j >>

\* create_processing_job: insert a record for job_id j with the given status.
create_processing_job(js, j, status) ==
    [ js EXCEPT ![j] = [ status |-> status ] ]

\* get_processing_job: the record correlated to the message by job_id
\* ("not_found" when there is none).
get_processing_job(js, j) == js[j]

\* CosmosService.update_job_status: SELECT * FROM c WHERE c.id = @job_id,
\* False when nothing matches, else set status and replace the item.
Cosmos_update_job_status(js, key, status) ==
    LET hit == { j \in Jobs : js[j].status # "not_found" /\ JobDbId(j) = key }
    IN  IF hit = {}
        THEN [ ok |-> FALSE, jobs |-> js ]
        ELSE LET j == CHOOSE x \in hit : TRUE
             IN  [ ok |-> TRUE, jobs |-> [ js EXCEPT ![j].status = status ] ]

\* BackgroundWorker._get_job_status
Worker_get_job_status(js, j) == get_processing_job(js, j).status

\* BackgroundWorker._update_job_status: every exception (also the one raised
\* when CosmosService.update_job_status returns False) is caught and logged.
Worker_update_job_status(js, j, status) ==
    IF get_processing_job(js, j).status # "not_found"
    THEN Cosmos_update_job_status(js, JobIdKey(j), status).jobs
    ELSE create_processing_job(js, j, status)

\* Whether that write reached the store: CosmosService.update_job_status
\* returned True, or a new record was created.
Worker_update_job_status_ok(js, j, status) ==
    IF get_processing_job(js, j).status # "not_found"
    THEN Cosmos_update_job_status(js, JobIdKey(j), status).ok
    ELSE TRUE

\* get_document_by_job_id / get_extraction_by_job_id: a record written for
\* this job_id, if any.
get_document_by_job_id(docs, j) == docs[j] > 0

get_extraction_by_job_id(exts, j) == exts[j] > 0

----------------------------------------------------------------------------
(* Retrying object reader: _process_document, step 2 *)

\* settings.azure_blob_retry_delay_seconds
RetryDelaySeconds == 5

\* settings.azure_blob_max_retries
MaxRetries == 3

\* settings.azure_blob_retry_backoff_factor = 1.5 = BackoffNum / BackoffDen
BackoffNum == 3

BackoffDen == 2

RetrySettings ==
    [ delay |-> RetryDelaySeconds, max |-> MaxRetries,
      num |-> BackoffNum, den |-> BackoffDen ]

\* What one call of blob_service.download_document can do: return content,
\* return None (or empty content), or raise.
ReadOutcomes == { "ok", "none", "raise" }

RECURSIVE Pow(_, _)
Pow(b, n) == IF n = 0 THEN 1 ELSE b * Pow(b, n - 1)

\* A reader that waits the same delay before every retry.
RetryDelay_Constant(p, attempt) == p.delay

\* delay = int(delay_seconds * (backoff_factor ** attempt))
RetryDelay(p, attempt) ==
    (p.delay * Pow(p.num, attempt)) \div Pow(p.den, attempt)

\* State of the reader after the initial sleep, before the first attempt.
ReaderStart(p) ==
    [ attempt |-> 0, total_wait |-> 0, waits |-> << >>,
      initial_sleeps |-> << p.delay >>, status |-> "running" ]

\* One iteration of "for attempt in range(max_retries)", and the check after
\* the loop when the iteration was the last one.
ReadAttempt(st, out, p) ==
    IF out = "ok"
    THEN [ st EXCEPT !.status = "ok" ]
    ELSE IF out = "raise"
    THEN IF st.attempt < p.max - 1
         THEN [ st EXCEPT !.attempt = st.attempt + 1,
                          !.total_wait = st.total_wait + RetryDelay(p, st.attempt),
                          !.waits = Append(st.waits, RetryDelay(p, st.attempt)) ]
         ELSE [ st EXCEPT !.status = "raised" ]
    ELSE IF st.attempt < p.max - 1
         THEN [ st EXCEPT !.attempt = st.attempt + 1 ]
         ELSE [ st EXCEPT !.status = "raised_empty" ]

\* The whole read: the outcomes of the successive attempts are outs[0..].
RECURSIVE RunReader(_, _, _)
RunReader(st, outs, p) ==
    IF st.status # "running" THEN st
    ELSE IF p.max = 0 THEN [ st EXCEPT !.status = "raised_empty" ]
    ELSE RunReader(ReadAttempt(st, outs[st.attempt], p), outs, p)

----------------------------------------------------------------------------
(* Queue Storage adapter *)

MsgStates == { "absent", "visible", "leased" }

\* receive_message(queue_name, max_messages=1, visibility_timeout=60): the
\* message becomes invisible and gets a new pop receipt.
receive_message(ms, j) ==
    [ ms EXCEPT ![j] = [ state |-> "leased", receipt |-> ms[j].receipt + 1 ] ]

\* delete_message(message_id, pop_receipt): no queue_name is passed, so the
\* call goes to document_processing_queue; it removes the message when that
\* is the queue holding it and the pop receipt is the current one, and
\* returns False (error caught) otherwise.
delete_message(ms, qn, j, receipt) ==
    IF qn = DocumentProcessingQueue /\ ms[j].state # "absent"
       /\ ms[j].receipt = receipt
    THEN [ ms EXCEPT ![j].state = "absent" ]
    ELSE ms

\* move_to_failed_queue: send the message plus failure data to the
\* failed-processing queue and return the new message's id; when the queue
\* service is not available or the send raises, None is returned and nothing
\* is stored.
move_to_failed_queue(dq, j, sent) ==
    IF sent THEN [ dq EXCEPT ![j] = dq[j] + 1 ] ELSE dq

----------------------------------------------------------------------------
(* The worker system *)

\* ProcessingMode, and a mode string that is none of its members.
ProcessingModes == { "dual_service", "gpt_vision_only", "hybrid_consensus" }

UnknownMode == "unknown_mode"

\* The processing_mode strings of the messages in the queue.
MessageModes == { "dual_service", UnknownMode }

PcValues ==
    { "idle", "guard", "set_processing", "download", "extract", "save_doc",
      "save_ext", "set_completed", "move", "final_status", "cleanup",
      "except", "finally", "ack", "q_dlq", "q_delete", "q_failed", "sleep" }

TypeOK ==
    /\ queue_name \in QueueNames
    /\ msgs \in [ Jobs -> [ state : MsgStates, receipt : 0 .. MaxDeliveries ] ]
    /\ dlq \in [ Jobs -> 0 .. MaxDeliveries ]
    /\ jobs \in [ Jobs -> [ status : JobStatuses ] ]
    /\ docRecs \in [ Jobs -> 0 .. MaxDeliveries ]
    /\ extRecs \in [ Jobs -> 0 .. MaxDeliveries ]
    /\ blobOrig \in [ Jobs -> BOOLEAN ]
    /\ blobProc \in [ Jobs -> 0 .. MaxDeliveries ]
    /\ persist \in [ Jobs -> BOOLEAN ]
    /\ msg_mode \in [ Jobs -> MessageModes ]
    /\ pc \in [ Workers -> PcValues ]
    /\ wjob \in [ Workers -> Jobs \cup { 0 } ]
    /\ wreceipt \in [ Workers -> 0 .. MaxDeliveries ]
    /\ started \in [ Workers -> BOOLEAN ]
    /\ status_write_failed \in [ Workers -> BOOLEAN ]
    /\ move_returned \in [ Workers -> { "none", "url", "None" } ]
    /\ cause \in [ Workers -> { "none", "download", "extract", "save_doc", "save_ext" } ]
    /\ result \in [ Workers -> { "none", "completed", "skipped", "failed" } ]
    /\ deliveries \in 0 .. MaxDeliveries
    /\ crashes \in 0 .. MaxCrashes
    /\ crashedJob \in [ Jobs -> BOOLEAN ]

\* Values of reader, cons and mrg in the specifications that do not use them.
ReaderOff == [ status |-> "off" ]

ConsOff == [ phase |-> "off" ]

MrgOff == [ phase |-> "off" ]

RouteOff == [ phase |-> "off" ]

DlOff == [ phase |-> "off" ]

PpOff == [ phase |-> "off" ]

JstOff == [ phase |-> "off" ]

CascOff == [ phase |-> "off" ]

OrchOff == [ phase |-> "off" ]

DispOff == [ phase |-> "off" ]

\* The dispatcher has uploaded each document, enqueued its message and
\* created its job record in "pending".
Init ==
    /\ queue_name \in QueueNames
    /\ msgs = [ j \in Jobs |-> [ state |-> "visible", receipt |-> 0 ] ]
    /\ dlq = [ j \in Jobs |-> 0 ]
    /\ jobs = [ j \in Jobs |-> [ status |-> "pending" ] ]
    /\ docRecs = [ j \in Jobs |-> 0 ]
    /\ extRecs = [ j \in Jobs |-> 0 ]
    /\ blobOrig = [ j \in Jobs |-> TRUE ]
    /\ blobProc = [ j \in Jobs |-> 0 ]
    /\ persist \in [ Jobs -> BOOLEAN ]
    /\ msg_mode \in [ Jobs -> MessageModes ]
    /\ pc = [ w \in Workers |-> "idle" ]
    /\ wjob = [ w \in Workers |-> 0 ]
    /\ wreceipt = [ w \in Workers |-> 0 ]
    /\ started = [ w \in Workers |-> FALSE ]
    /\ status_write_failed = [ w \in Workers |-> FALSE ]
    /\ move_returned = [ w \in Workers |-> "none" ]
    /\ cause = [ w \in Workers |-> "none" ]
    /\ result = [ w \in Workers |-> "none" ]
    /\ deliveries = 0
    /\ crashes = 0
    /\ crashedJob = [ j \in Jobs |-> FALSE ]
    /\ reader = ReaderOff
    /\ cons = ConsOff
    /\ mrg = MrgOff
    /\ route = RouteOff
    /\ dl = DlOff
    /\ pp = PpOff
    /\ jst = JstOff
    /\ casc = CascOff
    /\ orch = OrchOff
    /\ disp = DispOff

queueVars == << queue_name, msgs, dlq >>

storeVars == << jobs, docRecs, extRecs >>

blobVars == << blobOrig, blobProc >>

ghostVars == << deliveries, crashes, crashedJob >>

\* The variables of the other specifications, which the worker system leaves alone.
pureVars == << reader, cons, mrg, route, dl, pp, jst, casc, orch, disp >>

\* _process_queue, lines 66-87: receive one message; with none, return.
ReceiveMessage(w) ==
    /\ pc[w] = "idle"
    /\ deliveries < MaxDeliveries
    /\ deliveries' = deliveries + 1
    /\ \E j \in Jobs :
        /\ msgs[j].state = "visible"
        /\ msgs' = receive_message(msgs, j)
        /\ wjob' = [ wjob EXCEPT ![w] = j ]
        /\ wreceipt' = [ wreceipt EXCEPT ![w] = msgs[j].receipt + 1 ]
    /\ pc' = [ pc EXCEPT ![w] = "guard" ]
    /\ UNCHANGED pureVars
    /\ UNCHANGED << queue_name, dlq, storeVars, blobVars, persist, msg_mode, started, status_write_failed, move_returned,
                    cause, result, crashes, crashedJob >>

\* The queue's visibility lease of 60 s runs out while the message is still
\* in the queue: it can be received again.
LeaseExpire(j) ==
    /\ msgs[j].state = "leased"
    /\ deliveries < MaxDeliveries
    /\ msgs' = [ msgs EXCEPT ![j].state = "visible" ]
    /\ UNCHANGED pureVars
    /\ UNCHANGED << queue_name, dlq, storeVars, blobVars, persist, msg_mode, pc, wjob,
                    wreceipt, started, status_write_failed, move_returned, cause, result, ghostVars >>

\* _process_document step 0: the idempotency guard.
Guard(w) ==
    /\ pc[w] = "guard"
    /\ IF Worker_get_job_status(jobs, wjob[w]) = "pending"
       THEN /\ pc' = [ pc EXCEPT ![w] = "set_processing" ]
            /\ UNCHANGED result
       ELSE /\ pc' = [ pc EXCEPT ![w] = "ack" ]
            /\ result' = [ result EXCEPT ![w] = "skipped" ]
    /\ UNCHANGED pureVars
    /\ UNCHANGED << queueVars, storeVars, blobVars, persist, msg_mode, wjob, wreceipt,
                    started, status_write_failed, move_returned, cause, ghostVars >>

\* step 1: status "processing", processing_started = True.
SetProcessing(w) ==
    /\ pc[w] = "set_processing"
    /\ jobs' = Worker_update_job_status(jobs, wjob[w], "processing")
    /\ status_write_failed' =
        [ status_write_failed EXCEPT
            ![w] = @ \/ ~Worker_update_job_status_ok(jobs, wjob[w], "processing") ]
    /\ started' = [ started EXCEPT ![w] = TRUE ]
    /\ pc' = [ pc EXCEPT ![w] = "download" ]
    /\ UNCHANGED pureVars
    /\ UNCHANGED move_returned
    /\ UNCHANGED << queueVars, docRecs, extRecs, blobVars, persist, msg_mode, wjob,
                    wreceipt, cause, result, ghostVars >>

\* step 2: the retrying read of the uploaded object. An object that is not in
\* the primary container makes every attempt raise.
Download(w) ==
    /\ pc[w] = "download"
    /\ \E outs \in [ 0 .. MaxRetries - 1 -> ReadOutcomes ] :
        /\ blobOrig[wjob[w]] \/ \A i \in DOMAIN outs : outs[i] = "raise"
        /\ IF RunReader(ReaderStart(RetrySettings), outs, RetrySettings).status = "ok"
           THEN /\ pc' = [ pc EXCEPT ![w] = "extract" ]
                /\ UNCHANGED cause
           ELSE /\ pc' = [ pc EXCEPT ![w] = "except" ]
                /\ cause' = [ cause EXCEPT ![w] = "download" ]
    /\ UNCHANGED pureVars
    /\ UNCHANGED << queueVars, storeVars, blobVars, persist, msg_mode, wjob, wreceipt,
                    started, status_write_failed, move_returned, result, ghostVars >>

\* step 3: ai_orchestrator.process_document returns or raises; with a
\* processing_mode that is no ProcessingMode it raises ValueError.
Extract(w) ==
    /\ pc[w] = "extract"
    /\ \E ok \in BOOLEAN :
        IF ok /\ msg_mode[wjob[w]] \in ProcessingModes
        THEN /\ pc' = [ pc EXCEPT ![w] = "save_doc" ]
             /\ UNCHANGED cause
        ELSE /\ pc' = [ pc EXCEPT ![w] = "except" ]
             /\ cause' = [ cause EXCEPT ![w] = "extract" ]
    /\ UNCHANGED pureVars
    /\ UNCHANGED << queueVars, storeVars, blobVars, persist, msg_mode, wjob, wreceipt,
                    started, status_write_failed, move_returned, result, ghostVars >>

\* A worker that goes on whatever the save returned.
step_after_save_Unchecked(id_ok, next) == next

\* "if not doc_id: raise Exception(...)" and "if not ext_id: raise
\* Exception(...)": the step that follows a save.
step_after_save(id_ok, next) == IF id_ok THEN next ELSE "except"

\* step 4a: save_document returns an id, or None and the worker raises.
SaveDocument(w) ==
    /\ pc[w] = "save_doc"
    /\ \E ok \in BOOLEAN :
        LET nxt == step_after_save(ok, "save_ext")
        IN  /\ docRecs' = IF ok THEN [ docRecs EXCEPT ![wjob[w]] = @ + 1 ] ELSE docRecs
            /\ pc' = [ pc EXCEPT ![w] = nxt ]
            /\ cause' = IF nxt = "except"
                         THEN [ cause EXCEPT ![w] = "save_doc" ]
                         ELSE cause
    /\ UNCHANGED pureVars
    /\ UNCHANGED << queueVars, jobs, extRecs, blobVars, persist, msg_mode, wjob,
                    wreceipt, started, status_write_failed, move_returned, result, ghostVars >>

\* step 4b: save_extraction_result returns an id, or None and the worker raises.
SaveExtraction(w) ==
    /\ pc[w] = "save_ext"
    /\ \E ok \in BOOLEAN :
        LET nxt == step_after_save(ok, "set_completed")
        IN  /\ extRecs' = IF ok THEN [ extRecs EXCEPT ![wjob[w]] = @ + 1 ] ELSE extRecs
            /\ pc' = [ pc EXCEPT ![w] = nxt ]
            /\ cause' = IF nxt = "except"
                         THEN [ cause EXCEPT ![w] = "save_ext" ]
                         ELSE cause
    /\ UNCHANGED pureVars
    /\ UNCHANGED << queueVars, jobs, docRecs, blobVars, persist, msg_mode, wjob,
                    wreceipt, started, status_write_failed, move_returned, result, ghostVars >>

\* step 5: status "completed".
SetCompleted(w) ==
    /\ pc[w] = "set_completed"
    /\ jobs' = Worker_update_job_status(jobs, wjob[w], "completed")
    /\ status_write_failed' =
        [ status_write_failed EXCEPT
            ![w] = @ \/ ~Worker_update_job_status_ok(jobs, wjob[w], "completed") ]
    /\ pc' = [ pc EXCEPT ![w] = "move" ]
    /\ UNCHANGED pureVars
    /\ UNCHANGED move_returned
    /\ UNCHANGED << queueVars, docRecs, extRecs, blobVars, persist, msg_mode, wjob,
                    wreceipt, started, cause, result, ghostVars >>

\* BlobStorageService.move_to_processed: copy the object under a new
\* processed_<timestamp> name, then delete the original (best effort). Any
\* error is caught and None returned.
MoveOutcomes == { "moved", "copied", "failed" }

move_to_processed(orig, proc, j, out) ==
    IF ~orig[j] \/ out = "failed"
    THEN [ orig |-> orig, proc |-> proc, returned |-> "None" ]
    ELSE [ orig |-> IF out = "moved" THEN [ orig EXCEPT ![j] = FALSE ] ELSE orig,
           proc |-> [ proc EXCEPT ![j] = @ + 1 ], returned |-> "url" ]

\* step 6: move the document; move_successful is set whenever no exception
\* escapes, and move_to_processed lets none escape.
MoveToProcessed(w) ==
    /\ pc[w] = "move"
    /\ \E out \in MoveOutcomes :
        LET r == move_to_processed(blobOrig, blobProc, wjob[w], out)
        IN  /\ blobOrig' = r.orig
            /\ blobProc' = r.proc
            /\ move_returned' = [ move_returned EXCEPT ![w] = r.returned ]
    /\ pc' = [ pc EXCEPT ![w] = "final_status" ]
    /\ UNCHANGED pureVars
    /\ UNCHANGED << queueVars, storeVars, persist, msg_mode, wjob, wreceipt, started, status_write_failed,
                    cause, result, ghostVars >>

\* step 7: status "completed" again (both branches write the same).
FinalStatus(w) ==
    /\ pc[w] = "final_status"
    /\ jobs' = Worker_update_job_status(jobs, wjob[w], "completed")
    /\ status_write_failed' =
        [ status_write_failed EXCEPT
            ![w] = @ \/ ~Worker_update_job_status_ok(jobs, wjob[w], "completed") ]
    /\ pc' = [ pc EXCEPT ![w] = "cleanup" ]
    /\ UNCHANGED pureVars
    /\ UNCHANGED move_returned
    /\ UNCHANGED << queueVars, docRecs, extRecs, blobVars, persist, msg_mode, wjob,
                    wreceipt, started, cause, result, ghostVars >>

\* step 9: with persistence false, list the "processed" container under the
\* job's prefix and delete the first blob found (delete_blob_native may
\* return False); nothing is done to the primary container.
cleanup_processed(proc, j, keep, deleted) ==
    IF ~keep /\ proc[j] > 0 /\ deleted
    THEN [ proc EXCEPT ![j] = @ - 1 ]
    ELSE proc

Cleanup(w) ==
    /\ pc[w] = "cleanup"
    /\ \E deleted \in BOOLEAN :
        blobProc' = cleanup_processed(blobProc, wjob[w], persist[wjob[w]], deleted)
    /\ pc' = [ pc EXCEPT ![w] = "finally" ]
    /\ UNCHANGED pureVars
    /\ UNCHANGED << queueVars, storeVars, blobOrig, persist, msg_mode, wjob, wreceipt,
                    started, status_write_failed, move_returned, cause, result, ghostVars >>

\* except Exception (lines 539-557): status "failed", then re-raise.
ExceptHandler(w) ==
    /\ pc[w] = "except"
    /\ jobs' = Worker_update_job_status(jobs, wjob[w], "failed")
    /\ pc' = [ pc EXCEPT ![w] = "finally" ]
    /\ UNCHANGED pureVars
    /\ UNCHANGED << queueVars, docRecs, extRecs, blobVars, persist, msg_mode, wjob,
                    wreceipt, started, status_write_failed, move_returned, cause, result, ghostVars >>

\* finally (lines 559-606): a job still "processing" becomes "completed" when
\* a document and an extraction record exist for it, "failed" otherwise.
reconcile(js, docs, exts, j) ==
    IF Worker_get_job_status(js, j) = "processing"
    THEN IF get_document_by_job_id(docs, j) /\ get_extraction_by_job_id(exts, j)
         THEN Worker_update_job_status(js, j, "completed")
         ELSE Worker_update_job_status(js, j, "failed")
    ELSE js

Finally(w) ==
    /\ pc[w] = "finally"
    /\ jobs' = IF started[w] THEN reconcile(jobs, docRecs, extRecs, wjob[w]) ELSE jobs
    /\ IF cause[w] = "none"
       THEN /\ result' = [ result EXCEPT ![w] = "completed" ]
            /\ pc' = [ pc EXCEPT ![w] = "ack" ]
       ELSE /\ pc' = [ pc EXCEPT ![w] = "q_dlq" ]
            /\ UNCHANGED result
    /\ UNCHANGED pureVars
    /\ UNCHANGED << queueVars, docRecs, extRecs, blobVars, persist, msg_mode, wjob,
                    wreceipt, started, status_write_failed, move_returned, cause, ghostVars >>

\* _process_queue, lines 94-100: 'completed' or 'skipped': delete the message.
Ack(w) ==
    /\ pc[w] = "ack"
    /\ msgs' = delete_message(msgs, queue_name, wjob[w], wreceipt[w])
    /\ pc' = [ pc EXCEPT ![w] = "sleep" ]
    /\ UNCHANGED pureVars
    /\ UNCHANGED << queue_name, dlq, storeVars, blobVars, persist, msg_mode, wjob,
                    wreceipt, started, status_write_failed, move_returned, cause, result, ghostVars >>

\* _process_queue, lines 104-108: the exception reached _process_queue; what
\* move_to_failed_queue returns is not looked at.
QueueDlq(w) ==
    /\ pc[w] = "q_dlq"
    /\ \E sent \in BOOLEAN : dlq' = move_to_failed_queue(dlq, wjob[w], sent)
    /\ pc' = [ pc EXCEPT ![w] = "q_delete" ]
    /\ UNCHANGED pureVars
    /\ UNCHANGED << queue_name, msgs, storeVars, blobVars, persist, msg_mode, wjob,
                    wreceipt, started, status_write_failed, move_returned, cause, result, ghostVars >>

\* line 111
QueueDelete(w) ==
    /\ pc[w] = "q_delete"
    /\ msgs' = delete_message(msgs, queue_name, wjob[w], wreceipt[w])
    /\ pc' = [ pc EXCEPT ![w] = "q_failed" ]
    /\ UNCHANGED pureVars
    /\ UNCHANGED << queue_name, dlq, storeVars, blobVars, persist, msg_mode, wjob,
                    wreceipt, started, status_write_failed, move_returned, cause, result, ghostVars >>

\* line 114
QueueFailed(w) ==
    /\ pc[w] = "q_failed"
    /\ jobs' = Worker_update_job_status(jobs, wjob[w], "failed")
    /\ result' = [ result EXCEPT ![w] = "failed" ]
    /\ pc' = [ pc EXCEPT ![w] = "sleep" ]
    /\ UNCHANGED pureVars
    /\ UNCHANGED << queueVars, docRecs, extRecs, blobVars, persist, msg_mode, wjob,
                    wreceipt, started, status_write_failed, move_returned, cause, ghostVars >>

\* start(), lines 47-49: _process_queue has returned; after the polling
\* interval the loop polls again.
Wake(w) ==
    /\ pc[w] = "sleep"
    /\ pc' = [ pc EXCEPT ![w] = "idle" ]
    /\ wjob' = [ wjob EXCEPT ![w] = 0 ]
    /\ wreceipt' = [ wreceipt EXCEPT ![w] = 0 ]
    /\ started' = [ started EXCEPT ![w] = FALSE ]
    /\ status_write_failed' = [ status_write_failed EXCEPT ![w] = FALSE ]
    /\ move_returned' = [ move_returned EXCEPT ![w] = "none" ]
    /\ cause' = [ cause EXCEPT ![w] = "none" ]
    /\ result' = [ result EXCEPT ![w] = "none" ]
    /\ UNCHANGED pureVars
    /\ UNCHANGED << queueVars, storeVars, blobVars, persist, msg_mode, ghostVars >>

\* The worker process dies while handling a message (no except or finally
\* block runs) and a fresh process takes its place.
Crash(w) ==
    /\ pc[w] \notin { "idle", "sleep" }
    /\ crashes < MaxCrashes
    /\ crashes' = crashes + 1
    /\ crashedJob' = [ crashedJob EXCEPT ![wjob[w]] = @ \/ started[w] ]
    /\ pc' = [ pc EXCEPT ![w] = "idle" ]
    /\ wjob' = [ wjob EXCEPT ![w] = 0 ]
    /\ wreceipt' = [ wreceipt EXCEPT ![w] = 0 ]
    /\ started' = [ started EXCEPT ![w] = FALSE ]
    /\ status_write_failed' = [ status_write_failed EXCEPT ![w] = FALSE ]
    /\ move_returned' = [ move_returned EXCEPT ![w] = "none" ]
    /\ cause' = [ cause EXCEPT ![w] = "none" ]
    /\ result' = [ result EXCEPT ![w] = "none" ]
    /\ UNCHANGED pureVars
    /\ UNCHANGED << queueVars, storeVars, blobVars, persist, msg_mode, deliveries >>

Next ==
    \/ \E w \in Workers : ReceiveMessage(w)
    \/ \E j \in Jobs : LeaseExpire(j)
    \/ \E w \in Workers : Guard(w)
    \/ \E w \in Workers : SetProcessing(w)
    \/ \E w \in Workers : Download(w)
    \/ \E w \in Workers : Extract(w)
    \/ \E w \in Workers : SaveDocument(w)
    \/ \E w \in Workers : SaveExtraction(w)
    \/ \E w \in Workers : SetCompleted(w)
    \/ \E w \in Workers : MoveToProcessed(w)
    \/ \E w \in Workers : FinalStatus(w)
    \/ \E w \in Workers : Cleanup(w)
    \/ \E w \in Workers : ExceptHandler(w)
    \/ \E w \in Workers : Finally(w)
    \/ \E w \in Workers : Ack(w)
    \/ \E w \in Workers : QueueDlq(w)
    \/ \E w \in Workers : QueueDelete(w)
    \/ \E w \in Workers : QueueFailed(w)
    \/ \E w \in Workers : Wake(w)
    \/ \E w \in Workers : Crash(w)

Spec == Init /\ [][Next]_vars

----------------------------------------------------------------------------
(* Properties of the worker system *)

Terminal == { "completed", "failed" }

\* Worker w is between passing the guard and its terminal status write.
Driving(w) ==
    pc[w] \in { "set_processing", "download", "extract", "save_doc", "save_ext",
                "set_completed", "except" }

\* Worker w is the only one with a message in hand.
Alone(w) == \A v \in Workers \ { w } : pc[v] = "idle"

\* C1: when the handling of a delivery has returned, no worker has died and
\* no other delivery is being handled, the job has gone through its one
\* pending -> processing -> terminal sequence: its stored status is terminal
\* (so that any later delivery is skipped by the guard).
C1_OneSequencePerJob ==
    \A w \in Workers :
        (pc[w] = "sleep" /\ crashes = 0 /\ Alone(w))
            => jobs[wjob[w]].status \in Terminal

\* C2: no two workers are at the same time past the guard and not yet done
\* writing the terminal status for the same job.
C2_NoTwoDrivers ==
    \A w, v \in Workers :
        (w # v /\ Driving(w) /\ Driving(v)) => wjob[w] # wjob[v]

\* C4: when the handling of a message whose extraction raised has returned,
\* the job is "failed", the failed-processing queue holds a message with its
\* job_id and the original message is no longer in the main queue.
C4_ExtractionFailureHandled ==
    \A w \in Workers :
        (pc[w] = "sleep" /\ cause[w] = "extract")
            => /\ jobs[wjob[w]].status = "failed"
               /\ dlq[wjob[w]] >= 1
               /\ msgs[wjob[w]].state = "absent"

\* C5: when a worker has finished handling a dequeued message (completed,
\* skipped or failed), the message is no longer in the queue it came from.
C5_HandledMessageRemoved ==
    \A w \in Workers :
        pc[w] = "sleep" => msgs[wjob[w]].state = "absent"

\* C6: a job whose worker died after step 1 has a terminal status once its
\* message has left the queue and no worker is handling it any more.
C6_CrashedJobRepaired ==
    \A j \in Jobs :
        ( /\ crashedJob[j]
          /\ msgs[j].state = "absent"
          /\ \A w \in Workers : wjob[w] = j => pc[w] = "sleep" )
            => jobs[j].status \in Terminal

\* Worker w has handled its message to the end of _process_document, which
\* returned 'completed'.
HandledCompleted(w) == pc[w] = "sleep" /\ result[w] = "completed"

\* C12: when a job has been processed to completion, with the persistence
\* flag false the uploaded object is in no container of the object store any
\* more, and with the flag true it is still retrievable.
C12_PersistencePolicy ==
    \A w \in Workers :
        HandledCompleted(w) =>
            IF persist[wjob[w]]
            THEN blobOrig[wjob[w]] \/ blobProc[wjob[w]] > 0
            ELSE ~blobOrig[wjob[w]] /\ blobProc[wjob[w]] = 0

\* C16 (worker): when the worker has handled a message whose processing_mode
\* is not a recognised mode, the handling failed at the extraction step and
\* the job's stored status is "failed".
C16_UnsupportedModeJobFailed ==
    \A w \in Workers :
        (pc[w] = "sleep" /\ result[w] = "failed"
         /\ msg_mode[wjob[w]] \notin ProcessingModes)
            => /\ cause[w] \in { "download", "extract" }
               /\ jobs[wjob[w]].status = "failed"

\* Worker w has handled its message to the end and a record write failed on
\* the way: save_document or save_extraction_result returned None, or a
\* status write of steps 1 to 7 did not reach the store.
HandledWithFailedWrite(w) ==
    /\ pc[w] = "sleep"
    /\ result[w] # "skipped"
    /\ cause[w] \in { "save_doc", "save_ext" } \/ status_write_failed[w]

\* C21: a failed record write (document record, extraction record or job
\* status write) is fatal: the handling is not reported completed, the job's
\* stored status is "failed" and its message is in the failed-processing
\* queue.
C21_FailedWriteIsFatal ==
    \A w \in Workers :
        HandledWithFailedWrite(w)
            => /\ result[w] = "failed"
               /\ jobs[wjob[w]].status = "failed"
               /\ dlq[wjob[w]] >= 1

\* C30 (worker): when the read of the object has failed on every attempt
\* and the worker has handled the message to the end, the handling has failed
\* and the job's stored status is "failed".
C30_ReadFailureFailsJob ==
    \A w \in Workers :
        (pc[w] = "sleep" /\ cause[w] = "download")
            => /\ result[w] = "failed"
               /\ jobs[wjob[w]].status = "failed"

\* Worker w has handled the only delivery made so far to the end, and
\* move_to_processed did not move or copy the object (it returned None).
HandledWithFailedMove(w) ==
    /\ pc[w] = "sleep"
    /\ move_returned[w] = "None"
    /\ deliveries = 1

\* C32: when the move to the processed area failed after the job was marked
\* completed, the job's stored status is "completed", its document and
\* extraction record are the ones written before the move, the message has
\* been acked (it is no longer in the main queue) and no dead-letter message
\* has been published.
C32_FailedMoveKeepsCompleted ==
    \A w \in Workers :
        HandledWithFailedMove(w)
            => /\ result[w] = "completed"
               /\ jobs[wjob[w]].status = "completed"
               /\ docRecs[wjob[w]] = 1 /\ extRecs[wjob[w]] = 1
               /\ msgs[wjob[w]].state = "absent"
               /\ dlq[wjob[w]] = 0

\* C32 (what the worker itself does): after a failed move the handling is
\* still reported completed, the result records are untouched and nothing is
\* sent to the failed-processing queue.
C32_FailedMoveNotFatal ==
    \A w \in Workers :
        HandledWithFailedMove(w)
            => /\ result[w] = "completed"
               /\ docRecs[wjob[w]] = 1 /\ extRecs[wjob[w]] = 1
               /\ dlq[wjob[w]] = 0

\* C33: when the handling of a message for which the worker set status
\* "processing" has ended (normally or by exception), the job's stored status
\* is no longer "processing": it is "completed" when a document and an
\* extraction record exist for the job and "failed" otherwise.
C33_ReconciledAtEnd ==
    \A w \in Workers :
        (pc[w] = "sleep" /\ started[w])
            => /\ jobs[wjob[w]].status # "processing"
               /\ jobs[wjob[w]].status =
                    IF get_document_by_job_id(docRecs, wjob[w])
                       /\ get_extraction_by_job_id(extRecs, wjob[w])
                    THEN "completed"
                    ELSE "failed"

\* The worker system with no worker process dying.
NextLive ==
    \/ \E w \in Workers : ReceiveMessage(w)
    \/ \E j \in Jobs : LeaseExpire(j)
    \/ \E w \in Workers : Guard(w)
    \/ \E w \in Workers : SetProcessing(w)
    \/ \E w \in Workers : Download(w)
    \/ \E w \in Workers : Extract(w)
    \/ \E w \in Workers : SaveDocument(w)
    \/ \E w \in Workers : SaveExtraction(w)
    \/ \E w \in Workers : SetCompleted(w)
    \/ \E w \in Workers : MoveToProcessed(w)
    \/ \E w \in Workers : FinalStatus(w)
    \/ \E w \in Workers : Cleanup(w)
    \/ \E w \in Workers : ExceptHandler(w)
    \/ \E w \in Workers : Finally(w)
    \/ \E w \in Workers : Ack(w)
    \/ \E w \in Workers : QueueDlq(w)
    \/ \E w \in Workers : QueueDelete(w)
    \/ \E w \in Workers : QueueFailed(w)
    \/ \E w \in Workers : Wake(w)

\* start(): "while self.is_running: await self._process_queue(); await
\* asyncio.sleep(polling_interval)": every worker keeps polling and every
\* call it awaits returns, so a worker that can take a step takes it; the
\* queue makes a leased message visible again when its 60 s are over.
SpecLive ==
    /\ Init
    /\ [][NextLive]_vars
    /\ \A w \in Workers :
        WF_vars(\/ ReceiveMessage(w) \/ Guard(w) \/ SetProcessing(w) \/ Download(w)
                \/ Extract(w) \/ SaveDocument(w) \/ SaveExtraction(w)
                \/ SetCompleted(w) \/ MoveToProcessed(w) \/ FinalStatus(w)
                \/ Cleanup(w) \/ ExceptHandler(w) \/ Finally(w) \/ Ack(w)
                \/ QueueDlq(w) \/ QueueDelete(w) \/ QueueFailed(w) \/ Wake(w))
    /\ \A j \in Jobs : WF_vars(LeaseExpire(j))

\* C34: with workers that keep polling and never die, every job accepted by
\* the asynchronous path eventually has the stored status "completed" or
\* "failed".
C34_EventuallyTerminal ==
    \A j \in Jobs : <>(jobs[j].status \in Terminal)

\* C34, as a property of the states in which nothing more can happen to a
\* job: once its message has left the main queue and no worker has a message
\* in hand, the job's stored status is "completed" or "failed".
C34_QuiescentTerminal ==
    \A j \in Jobs :
        (msgs[j].state = "absent" /\ \A w \in Workers : pc[w] = "idle")
            => jobs[j].status \in Terminal

\* C34 (the handling itself): under the same assumptions every job's message
\* is eventually handled to the end by some worker.
C34_EventuallyHandled ==
    \A j \in Jobs : <>(\E w \in Workers : pc[w] = "sleep" /\ wjob[w] = j)

\* C35: once a worker has finished handling a message and the handling left
\* the job failed (the worker ended it by marking the job "failed", or the
\* job's stored status is "failed"), the failed-processing queue holds a
\* message with that job_id.
C35_FailedJobDeadLettered ==
    \A w \in Workers :
        ( /\ pc[w] = "sleep"
          /\ result[w] = "failed" \/ jobs[wjob[w]].status = "failed" )
            => dlq[wjob[w]] >= 1

\* C36: the message of a job whose handling failed is, at every moment after
\* the failure, in the main queue or in the failed-processing queue.
C36_FailedMessageNotLost ==
    \A w \in Workers :
        cause[w] # "none"
            => msgs[wjob[w]].state # "absent" \/ dlq[wjob[w]] >= 1

\* C37: when the handling of a job's message has ended failed, the uploaded
\* object has been neither moved nor deleted: it is still at its original
\* path in the primary container.
C37_FailedKeepsObject ==
    \A w \in Workers :
        (pc[w] = "sleep" /\ result[w] = "failed") => blobOrig[wjob[w]]

\* C37 (one handling): a handling that fails does not itself move or delete
\* the object; the move is made only by a handling that has passed the
\* step-5 "completed" write.
C37_FailingHandlingKeepsObject ==
    [][ \A w \in Workers :
            (cause'[w] # "none" \/ pc[w] \notin { "move", "cleanup" })
                => (pc'[w] = pc[w] \/ (blobOrig' = blobOrig /\ blobProc' = blobProc)) ]_vars

\* A deployment with a single worker process (one application instance
\* running one BackgroundWorker), which may die and be restarted.
NextSolo ==
    LET w == 1
    IN  \/ ReceiveMessage(w)
        \/ \E j \in Jobs : LeaseExpire(j)
        \/ Guard(w)
        \/ SetProcessing(w)
        \/ Download(w)
        \/ Extract(w)
        \/ SaveDocument(w)
        \/ SaveExtraction(w)
        \/ SetCompleted(w)
        \/ MoveToProcessed(w)
        \/ FinalStatus(w)
        \/ Cleanup(w)
        \/ ExceptHandler(w)
        \/ Finally(w)
        \/ Ack(w)
        \/ QueueDlq(w)
        \/ QueueDelete(w)
        \/ QueueFailed(w)
        \/ Wake(w)
        \/ Crash(w)

SpecSolo == Init /\ [][NextSolo]_vars

\* Worker w is at or past the step-5 write of status "completed" in the
\* handling of its message.
WritesCompleted(w) ==
    pc[w] \in { "set_completed", "move", "final_status", "cleanup" }

C17_OneExtractionPerJob ==
    \A j \in Jobs : extRecs[j] <= 1

----------------------------------------------------------------------------
(* SpecReader: the retrying reader, one attempt per step *)

MaxRetriesBound == 4

\* Settings the reader can be deployed with.
RetryParams ==
    [ delay : { 1, RetryDelaySeconds },
      max : 0 .. MaxRetriesBound,
      num : { BackoffNum, 2 },
      den : { BackoffDen, 1 } ]

\* Every variable of the worker system, fixed.
WorkerOff ==
    /\ queue_name = IdpProcessingQueue
    /\ msgs = [ j \in Jobs |-> [ state |-> "absent", receipt |-> 0 ] ]
    /\ dlq = [ j \in Jobs |-> 0 ]
    /\ jobs = [ j \in Jobs |-> [ status |-> "not_found" ] ]
    /\ docRecs = [ j \in Jobs |-> 0 ]
    /\ extRecs = [ j \in Jobs |-> 0 ]
    /\ blobOrig = [ j \in Jobs |-> FALSE ]
    /\ blobProc = [ j \in Jobs |-> 0 ]
    /\ persist = [ j \in Jobs |-> TRUE ]
    /\ msg_mode = [ j \in Jobs |-> "dual_service" ]
    /\ pc = [ w \in Workers |-> "idle" ]
    /\ wjob = [ w \in Workers |-> 0 ]
    /\ wreceipt = [ w \in Workers |-> 0 ]
    /\ started = [ w \in Workers |-> FALSE ]
    /\ status_write_failed = [ w \in Workers |-> FALSE ]
    /\ move_returned = [ w \in Workers |-> "none" ]
    /\ cause = [ w \in Workers |-> "none" ]
    /\ result = [ w \in Workers |-> "none" ]
    /\ deliveries = 0
    /\ crashes = 0
    /\ crashedJob = [ j \in Jobs |-> FALSE ]

workerVars ==
    << queueVars, storeVars, blobVars, persist, msg_mode, pc, wjob, wreceipt, started, status_write_failed, move_returned,
       cause, result, ghostVars >>

\* The worker has slept the initial delay and is about to make attempt 0.
InitReader ==
    /\ WorkerOff
    /\ jst = JstOff
    /\ casc = CascOff
    /\ orch = OrchOff
    /\ disp = DispOff
    /\ \E p \in RetryParams : reader = [ p |-> p, st |-> ReaderStart(p) ]
    /\ cons = ConsOff
    /\ mrg = MrgOff
    /\ route = RouteOff
    /\ dl = DlOff
    /\ pp = PpOff

\* One pass through the body of the retry loop.
ReaderAttempt ==
    /\ reader.st.status = "running"
    /\ reader.p.max > 0
    /\ \E out \in ReadOutcomes :
        reader' = [ reader EXCEPT !.st = ReadAttempt(reader.st, out, reader.p) ]
    /\ UNCHANGED << workerVars, disp, jst, casc, orch, cons, mrg, route, dl, pp >>

\* range(0) is empty: no attempt is made and the content check raises.
ReaderNoAttempt ==
    /\ reader.st.status = "running"
    /\ reader.p.max = 0
    /\ reader' = [ reader EXCEPT !.st.status = "raised_empty" ]
    /\ UNCHANGED << workerVars, disp, jst, casc, orch, cons, mrg, route, dl, pp >>

NextReader == ReaderAttempt \/ ReaderNoAttempt

SpecReader == InitReader /\ [][NextReader]_vars

\* The reader runs with delay 5, factor 1.5 and 3 retries, has given up with
\* the exception of its last attempt, and every attempt before it raised too.
AllAttemptsRaised ==
    /\ reader.p = RetrySettings
    /\ reader.st.status = "raised"
    /\ Len(reader.st.waits) = reader.st.attempt

C30_ReaderBounded ==
    [][ /\ reader.st.status = "running"
        /\ reader'.st.attempt <= reader.st.attempt + 1
        /\ reader.p.max > 0 => reader'.st.attempt < reader.p.max ]_vars

\* C31: the initial sleep happens exactly once, before the first attempt, and
\* every failed attempt that was followed by another attempt, whether it
\* raised or returned no content, was followed by a backoff sleep of
\* initial_delay * backoff_factor^attempt.
C31_SleepBetweenAttempts ==
    /\ reader.st.initial_sleeps = << reader.p.delay >>
    /\ Len(reader.st.waits) = reader.st.attempt
    /\ \A i \in DOMAIN reader.st.waits :
        reader.st.waits[i] * Pow(reader.p.den, i - 1)
            = reader.p.delay * Pow(reader.p.num, i - 1)

\* C31 (sleeps after raised attempts only): the number of backoff sleeps never
\* exceeds the number of failed attempts that were followed by another one.
C31_NoMoreSleepsThanRetries ==
    /\ reader.st.initial_sleeps = << reader.p.delay >>
    /\ Len(reader.st.waits) <= reader.st.attempt

----------------------------------------------------------------------------
(* SpecConsensus: the resolver over the results of the two backends *)

NumFields == 2

MaxValue == 2

\* The names of the requested fields.
Fields == 1 .. NumFields

\* Python's None; a key missing from a backend's result reads as None too.
None == 0

Values == 1 .. MaxValue

\* What a backend call produces: a mapping from field name to value, or an
\* exception.
BackendResults ==
    [ exc : { FALSE }, vals : [ Fields -> Values \cup { None } ] ]
        \cup { [ exc |-> TRUE, vals |-> [ f \in Fields |-> None ] ] }

ConsensusModes == { "dual_service", "hybrid_consensus" }

\* _get_field_value: result.get(field_name)
get_field_value(r, f) == r.vals[f]

ExtractionField(value, confidence, review_required, source_strategy) ==
    [ value |-> value, confidence |-> confidence,
      review_required |-> review_required,
      source_strategy |-> source_strategy ]

\* A resolver that takes the second backend's value on a discrepancy.
create_consensus_field_PreferDI(openai_value, doc_intelligence_value) ==
    IF openai_value # None /\ doc_intelligence_value # None
    THEN IF openai_value = doc_intelligence_value
         THEN ExtractionField(openai_value, 95, FALSE, "dual_service")
         ELSE ExtractionField(doc_intelligence_value, 80, TRUE, "dual_service")
    ELSE IF openai_value # None
    THEN ExtractionField(openai_value, 85, FALSE, "dual_service")
    ELSE IF doc_intelligence_value # None
    THEN ExtractionField(doc_intelligence_value, 75, FALSE, "dual_service")
    ELSE ExtractionField(None, 0, TRUE, "dual_service")

\* _create_consensus_field (confidence in hundredths)
create_consensus_field(openai_value, doc_intelligence_value) ==
    IF openai_value # None /\ doc_intelligence_value # None
    THEN IF openai_value = doc_intelligence_value
         THEN ExtractionField(openai_value, 95, FALSE, "dual_service")
         ELSE ExtractionField(openai_value, 80, TRUE, "dual_service")
    ELSE IF openai_value # None
    THEN ExtractionField(openai_value, 85, FALSE, "dual_service")
    ELSE IF doc_intelligence_value # None
    THEN ExtractionField(doc_intelligence_value, 75, FALSE, "dual_service")
    ELSE ExtractionField(None, 0, TRUE, "dual_service")

\* The per-field logic written out in _process_hybrid_consensus.
hybrid_consensus_field(openai_value, doc_intelligence_value) ==
    IF openai_value # None /\ doc_intelligence_value # None
    THEN IF openai_value = doc_intelligence_value
         THEN ExtractionField(openai_value, 95, FALSE, "hybrid_consensus")
         ELSE ExtractionField(openai_value, 80, TRUE, "hybrid_consensus")
    ELSE IF openai_value # None
    THEN ExtractionField(openai_value, 85, FALSE, "hybrid_consensus")
    ELSE IF doc_intelligence_value # None
    THEN ExtractionField(doc_intelligence_value, 75, TRUE, "hybrid_consensus")
    ELSE ExtractionField(None, 0, TRUE, "hybrid_consensus")

\* The value _process_dual_service reads for a field from one backend:
\* None when the backend's call ended in an exception.
dual_value(r, f) == IF r.exc THEN None ELSE get_field_value(r, f)

NoFields == [ f \in Fields |-> ExtractionField(None, 0, FALSE, "none") ]

\* A request has come in with its mode; the two backends will answer with
\* openai and di.
InitConsensus ==
    /\ WorkerOff
    /\ jst = JstOff
    /\ casc = CascOff
    /\ orch = OrchOff
    /\ disp = DispOff
    /\ reader = ReaderOff
    /\ mrg = MrgOff
    /\ route = RouteOff
    /\ dl = DlOff
    /\ pp = PpOff
    /\ \E m \in ProcessingModes \cup { UnknownMode },
          a \in BackendResults, b \in BackendResults :
        cons = [ phase |-> "called", mode |-> m, openai |-> a, di |-> b,
                 extraction_data |-> NoFields, calls |-> 0, error |-> "none" ]

\* A dual strategy that lets the exception of either call leave the function.
ProcessDualService_Abort ==
    /\ cons.phase = "called"
    /\ cons.mode = "dual_service"
    /\ IF cons.openai.exc \/ cons.di.exc
       THEN cons' = [ cons EXCEPT !.phase = "raised", !.calls = 2,
                                  !.error = "backend" ]
       ELSE cons' = [ cons EXCEPT
                       !.phase = "returned",
                       !.calls = 2,
                       !.extraction_data =
                           [ f \in Fields |->
                               create_consensus_field(dual_value(cons.openai, f),
                                                      dual_value(cons.di, f)) ] ]
    /\ UNCHANGED << workerVars, disp, jst, casc, orch, reader, mrg, route, dl, pp >>

\* _process_dual_service: both calls gathered with return_exceptions=True,
\* then one consensus field per requested field.
ProcessDualService ==
    /\ cons.phase = "called"
    /\ cons.mode = "dual_service"
    /\ cons' = [ cons EXCEPT
                   !.phase = "returned",
                   !.calls = 2,
                   !.extraction_data =
                       [ f \in Fields |->
                           create_consensus_field(dual_value(cons.openai, f),
                                                  dual_value(cons.di, f)) ] ]
    /\ UNCHANGED << workerVars, disp, jst, casc, orch, reader, mrg, route, dl, pp >>

\* _process_hybrid_consensus: the calls are awaited one after the other and
\* an exception of either leaves the function.
ProcessHybridConsensus ==
    /\ cons.phase = "called"
    /\ cons.mode = "hybrid_consensus"
    /\ IF cons.openai.exc \/ cons.di.exc
       THEN cons' = [ cons EXCEPT !.phase = "raised",
                                  !.calls = IF cons.openai.exc THEN 1 ELSE 2,
                                  !.error = "backend" ]
       ELSE cons' = [ cons EXCEPT
                       !.phase = "returned",
                       !.calls = 2,
                       !.extraction_data =
                           [ f \in Fields |->
                               hybrid_consensus_field(
                                   get_field_value(cons.openai, f),
                                   get_field_value(cons.di, f)) ] ]
    /\ UNCHANGED << workerVars, disp, jst, casc, orch, reader, mrg, route, dl, pp >>

\* _process_gpt_vision_only: the first backend alone, every field with
\* confidence 0.9 and no review.
ProcessGptVisionOnly ==
    /\ cons.phase = "called"
    /\ cons.mode = "gpt_vision_only"
    /\ IF cons.openai.exc
       THEN cons' = [ cons EXCEPT !.phase = "raised", !.calls = 1,
                                  !.error = "backend" ]
       ELSE cons' = [ cons EXCEPT
                       !.phase = "returned",
                       !.calls = 1,
                       !.extraction_data =
                           [ f \in Fields |->
                               ExtractionField(get_field_value(cons.openai, f),
                                               90, FALSE,
                                               "gpt_vision_only_cascade") ] ]
    /\ UNCHANGED << workerVars, disp, jst, casc, orch, reader, mrg, route, dl, pp >>

\* process_document, the final else: ValueError, no strategy is entered.
ProcessUnsupported ==
    /\ cons.phase = "called"
    /\ cons.mode \notin ProcessingModes
    /\ cons' = [ cons EXCEPT !.phase = "raised", !.error = "ValueError" ]
    /\ UNCHANGED << workerVars, disp, jst, casc, orch, reader, mrg, route, dl, pp >>

NextConsensus ==
    \/ ProcessDualService
    \/ ProcessHybridConsensus
    \/ ProcessGptVisionOnly
    \/ ProcessUnsupported

SpecConsensus == InitConsensus /\ [][NextConsensus]_vars

\* The values the resolver was given for field f.
openai_value(f) == dual_value(cons.openai, f)

doc_intelligence_value(f) == dual_value(cons.di, f)

\* C7: for every requested field of a returned result: both backends gave
\* the same non-null value -> that value, confidence 0.95, no review; they
\* gave different non-null values -> the first backend's value, confidence
\* 0.8, review required; neither gave a value -> null, confidence 0.0,
\* review required.
C7_ResolverBothOrNeither ==
    (cons.phase = "returned" /\ cons.mode \in ConsensusModes) =>
        \A f \in Fields :
            LET a == openai_value(f)
                b == doc_intelligence_value(f)
                r == cons.extraction_data[f]
            IN  /\ (a # None /\ b # None /\ a = b)
                    => (r.value = a /\ r.confidence = 95 /\ ~r.review_required)
                /\ (a # None /\ b # None /\ a # b)
                    => (r.value = a /\ r.confidence = 80 /\ r.review_required)
                /\ (a = None /\ b = None)
                    => (r.value = None /\ r.confidence = 0 /\ r.review_required)

\* A returned result with one field on which the backends agree, one on
\* which they differ, under the parallel strategy.
C7_Witness ==
    /\ cons.phase = "returned"
    /\ cons.mode = "dual_service"
    /\ \E f, g \in Fields :
        /\ openai_value(f) # None /\ openai_value(f) = doc_intelligence_value(f)
        /\ openai_value(g) # None /\ doc_intelligence_value(g) # None
        /\ openai_value(g) # doc_intelligence_value(g)
        /\ cons.extraction_data[g].value = openai_value(g)

\* C8: for every requested field of a returned result for which exactly one
\* backend gave a non-null value: the result is that value, with confidence
\* 0.85 when it came from the first backend and 0.75 when it came from the
\* second, and review is required exactly when the second backend is the
\* only source; under both strategies that use the resolver.
C8_ResolverSingleSource ==
    (cons.phase = "returned" /\ cons.mode \in ConsensusModes) =>
        \A f \in Fields :
            LET a == openai_value(f)
                b == doc_intelligence_value(f)
                r == cons.extraction_data[f]
            IN  /\ (a # None /\ b = None)
                    => (r.value = a /\ r.confidence = 85 /\ ~r.review_required)
                /\ (a = None /\ b # None)
                    => (r.value = b /\ r.confidence = 75 /\ r.review_required)

\* process_document has returned or raised.
Processed == cons.phase \in { "returned", "raised" }

\* Exactly one of the two backend calls ended in an exception.
OneBackendFailed == cons.openai.exc # cons.di.exc

\* C13: in dual_service, when exactly one backend call fails the call is not
\* aborted, and every field is resolved from the surviving backend's value
\* alone: that value, with confidence 0.85 from the first backend and 0.75
\* from the second, and null with confidence 0.0 when the survivor has none.
C13_DualToleratesOneFailure ==
    (Processed /\ cons.mode = "dual_service" /\ OneBackendFailed) =>
        /\ cons.phase = "returned"
        /\ \A f \in Fields :
            LET r == cons.extraction_data[f]
                v == IF cons.openai.exc THEN get_field_value(cons.di, f)
                     ELSE get_field_value(cons.openai, f)
            IN  /\ r.value = v
                /\ r.confidence = IF v = None THEN 0
                                  ELSE IF cons.openai.exc THEN 75 ELSE 85

\* The first backend failed, the second gave a value, and dual_service
\* returned it.
C13_Witness ==
    /\ cons.phase = "returned"
    /\ cons.mode = "dual_service"
    /\ cons.openai.exc /\ ~cons.di.exc
    /\ \E f \in Fields :
        /\ get_field_value(cons.di, f) # None
        /\ cons.extraction_data[f].value = get_field_value(cons.di, f)

\* C14: in dual_service, when both backend calls fail, process_document
\* fails (it does not return a result).
C14_DualBothFailRaises ==
    (Processed /\ cons.mode = "dual_service"
     /\ cons.openai.exc /\ cons.di.exc) => cons.phase = "raised"

\* C15: in hybrid_consensus, when exactly one backend call fails,
\* process_document does not fail: it returns a result.
C15_HybridToleratesOneFailure ==
    (Processed /\ cons.mode = "hybrid_consensus" /\ OneBackendFailed)
        => cons.phase = "returned"

\* C16 (orchestrator): with a processing_mode that is none of the three
\* recognised modes, process_document raises ValueError without having made
\* a backend call.
C16_OrchestratorFailsFast ==
    (Processed /\ cons.mode \notin ProcessingModes) =>
        /\ cons.phase = "raised"
        /\ cons.error = "ValueError"
        /\ cons.calls = 0

\* C27: hybrid_consensus and the parallel dual strategy apply the same
\* consensus function: from the same pair of backend results, the field a
\* strategy has returned has the value, confidence and review_required that
\* either strategy's resolver gives for that pair.
C27_SameConsensusFunction ==
    (cons.phase = "returned" /\ cons.mode \in ConsensusModes
     /\ ~cons.openai.exc /\ ~cons.di.exc) =>
        \A f \in Fields :
            LET a == get_field_value(cons.openai, f)
                b == get_field_value(cons.di, f)
                got == cons.extraction_data[f]
            IN  \A other \in { create_consensus_field(a, b),
                               hybrid_consensus_field(a, b) } :
                    /\ got.value = other.value
                    /\ got.confidence = other.confidence
                    /\ got.review_required = other.review_required

----------------------------------------------------------------------------
(* SpecMerge: merging batch outputs into the cascade accumulator *)

MaxMerges == 2

\* A key that a mapping does not have.
Absent == -1

\* Keys _merge_extractions and _format_extraction_for_prompt leave out.
ReservedKeys == { "pages_processed", "_rid", "_etag", "_ts" }

\* Keys a batch output can carry: requested field names (any identifier
\* passes the request's name validator) and response metadata.
MergeKeys == { "a", "pages_processed" }

\* Python dicts over MergeKeys.
Extractions == [ MergeKeys -> Values \cup { None, Absent } ]

\* What _process_single_batch hands to the merge: a dict, or some other
\* parsed JSON value (on which new.items() raises).
BatchOutputs ==
    [ is_dict : { TRUE }, kv : Extractions ]
        \cup { [ is_dict |-> FALSE, kv |-> [ k \in MergeKeys |-> Absent ] ] }

\* A merge in which the new value always replaces the old one.
merge_extractions_NullWins(base, new) ==
    IF ~new.is_dict THEN base
    ELSE [ k \in MergeKeys |->
            IF new.kv[k] = Absent \/ k \in ReservedKeys THEN base[k]
            ELSE new.kv[k] ]

\* _merge_extractions
merge_extractions(base, new) ==
    IF ~new.is_dict THEN base
    ELSE [ k \in MergeKeys |->
            IF new.kv[k] = Absent \/ k \in ReservedKeys THEN base[k]
            ELSE IF base[k] # Absent
            THEN IF new.kv[k] # None THEN new.kv[k] ELSE base[k]
            ELSE new.kv[k] ]

\* The first batch has given the baseline extraction.
InitMerge ==
    /\ WorkerOff
    /\ jst = JstOff
    /\ casc = CascOff
    /\ orch = OrchOff
    /\ disp = DispOff
    /\ reader = ReaderOff
    /\ cons = ConsOff
    /\ route = RouteOff
    /\ dl = DlOff
    /\ pp = PpOff
    /\ \E e \in Extractions :
        mrg = [ phase |-> "baseline", merges |-> 0, base |-> e,
                new |-> [ is_dict |-> TRUE, kv |-> e ],
                base_extraction |-> e, replaced |-> FALSE,
                had_value |-> { k \in MergeKeys : e[k] > None },
                had_key |-> { k \in MergeKeys : e[k] # Absent } ]

\* The batch output brings, for a key that is merged, a value other than the
\* one the accumulator holds.
Replaces(base, new) ==
    /\ new.is_dict
    /\ \E k \in MergeKeys \ ReservedKeys :
        base[k] > None /\ new.kv[k] > None /\ new.kv[k] # base[k]

\* _process_cascade_batches, one pass of the loop over the later batches:
\* base_extraction = _merge_extractions(base_extraction, batch_extraction)
MergeBatch ==
    /\ mrg.phase \in { "baseline", "merged" }
    /\ mrg.merges < MaxMerges
    /\ \E new \in BatchOutputs :
        LET merged == merge_extractions(mrg.base_extraction, new)
        IN  mrg' = [ phase |-> "merged", merges |-> mrg.merges + 1,
                     base |-> mrg.base_extraction, new |-> new,
                     base_extraction |-> merged,
                     replaced |-> mrg.replaced \/ Replaces(mrg.base_extraction, new),
                     had_value |-> mrg.had_value
                                     \cup { k \in MergeKeys : merged[k] > None },
                     had_key |-> mrg.had_key
                                     \cup { k \in MergeKeys : merged[k] # Absent } ]
    /\ UNCHANGED << workerVars, disp, jst, casc, orch, reader, cons, route, dl, pp >>

NextMerge == MergeBatch

SpecMerge == InitMerge /\ [][NextMerge]_vars

\* Last-non-null-wins for key k in the merge just made.
LastNonNullWins(k) ==
    LET old == mrg.base[k]
        new == mrg.new.kv[k]
        out == mrg.base_extraction[k]
    IN  /\ (mrg.new.is_dict /\ new > None) => out = new
        /\ (mrg.new.is_dict /\ old = Absent /\ new # Absent) => out = new
        /\ (new = None /\ old # Absent) => out = old

\* Over the merges made so far no key that held a value is null or gone,
\* and no key has disappeared.
NothingLost ==
    /\ \A k \in mrg.had_value : mrg.base_extraction[k] > None
    /\ \A k \in mrg.had_key : mrg.base_extraction[k] # Absent

\* C9 as stated: every merge is last-non-null-wins for every field of the
\* batch output (a non-null new value replaces the old one, a field absent
\* from the accumulator is added, a null new value does not overwrite), and
\* over any sequence of merges no field goes back to null or disappears.
C9_MergeAsStated ==
    mrg.phase = "merged" =>
        /\ \A k \in MergeKeys : LastNonNullWins(k)
        /\ NothingLost

\* C9 amended: every merge is last-non-null-wins for every key of the batch
\* output other than pages_processed, _rid, _etag and _ts; for those four
\* keys the accumulator keeps what it had, whatever the batch output says; a
\* batch output that is not a mapping leaves the accumulator as it was; and
\* over any sequence of merges no key goes back to null or disappears.
C9_MergeInCode ==
    mrg.phase = "merged" =>
        /\ \A k \in MergeKeys \ ReservedKeys : LastNonNullWins(k)
        /\ \A k \in MergeKeys \cap ReservedKeys :
              mrg.base_extraction[k] = mrg.base[k]
        /\ ~mrg.new.is_dict => mrg.base_extraction = mrg.base
        /\ NothingLost

\* Two merges: in the first a new value replaced an old one; in the second
\* a null came for the field that has a value and a reserved key came with
\* a value of its own.
C9_Witness ==
    /\ mrg.phase = "merged"
    /\ mrg.merges = 2
    /\ mrg.replaced
    /\ mrg.base["a"] > None /\ mrg.new.kv["a"] = None
    /\ mrg.base_extraction["a"] = mrg.base["a"]
    /\ mrg.new.kv["pages_processed"] > None
    /\ mrg.new.kv["pages_processed"] # mrg.base["pages_processed"]

----------------------------------------------------------------------------
(* SpecRoute: the dispatcher's choice between the inline and the queued path *)

\* DocumentService.async_threshold_mb (10.0)
AsyncThresholdMb == 10

\* file_size_mb = size in bytes / (1024 * 1024)
BytesPerMb == 1048576

\* The size taken for a document whose size could not be obtained (5.0).
DefaultSizeMb == 5

SizeSpread == 30

\* Sizes in bytes: around the threshold, and 9.9 MB and 10.1 MB.
Sizes ==
    { AsyncThresholdMb * BytesPerMb + d : d \in (0 - SizeSpread) .. SizeSpread }
        \cup { (99 * BytesPerMb) \div 10, (101 * BytesPerMb) \div 10 + 1 }

\* How a document comes in: as an uploaded file, or as a URL to fetch.
Entries == { "upload", "url" }

\* _get_document_size / get_file_size_from_url: the size in bytes the
\* dispatcher works with; the default when the size request fails.
get_document_size(size, measured) ==
    IF measured THEN size ELSE DefaultSizeMb * BytesPerMb

\* A dispatcher that sends a document of exactly the threshold size to the
\* queued path.
route_by_size_Strict(bytes) ==
    IF bytes < AsyncThresholdMb * BytesPerMb THEN "sync" ELSE "async"

\* file_size_mb <= self.async_threshold_mb: the division by 1024 * 1024 is
\* exact, so the comparison is one of byte counts.
route_by_size(bytes) ==
    IF bytes <= AsyncThresholdMb * BytesPerMb THEN "sync" ELSE "async"

\* process_document_upload: above 10.0 MB the upload is handed to
\* DocumentService.process_document, which measures the temporary file.
route_upload(size) ==
    IF size > AsyncThresholdMb * BytesPerMb
    THEN route_by_size(get_document_size(size, TRUE))
    ELSE "sync"

\* A request has arrived: a document of some size; whether its size can be
\* obtained (always, for an upload); whether it passes validation.
InitRoute ==
    /\ WorkerOff
    /\ jst = JstOff
    /\ casc = CascOff
    /\ orch = OrchOff
    /\ disp = DispOff
    /\ reader = ReaderOff
    /\ cons = ConsOff
    /\ mrg = MrgOff
    /\ dl = DlOff
    /\ pp = PpOff
    /\ \E e \in Entries, sz \in Sizes, m \in BOOLEAN, v \in BOOLEAN :
        /\ e = "upload" => m
        /\ route = [ phase |-> "received", entry |-> e, size |-> sz,
                     measured |-> m, valid |-> v, path |-> "none" ]

\* DocumentService.process_document / process_document_upload
Dispatch ==
    /\ route.phase = "received"
    /\ route' = [ route EXCEPT
                    !.phase = "dispatched",
                    !.path = IF ~route.valid THEN "rejected"
                             ELSE IF route.entry = "upload"
                             THEN route_upload(route.size)
                             ELSE route_by_size(
                                      get_document_size(route.size, route.measured)) ]
    /\ UNCHANGED << workerVars, disp, jst, casc, orch, reader, cons, mrg, dl, pp >>

NextRoute == Dispatch

SpecRoute == InitRoute /\ [][NextRoute]_vars

\* The request was accepted and given a path.
Routed == route.phase = "dispatched" /\ route.path # "rejected"

----------------------------------------------------------------------------
(* SpecDeadLetter: the message written to the failed-processing queue *)

MaxRetryCount == 2

\* The contents of a received message that matter here: fields of the
\* dispatcher's message, and retry_count, which it may or may not carry.
MessageContents ==
    [ job_id : Jobs, processing_mode : MessageModes,
      persistencia : { "true", "false" },
      retry_count : (0 .. MaxRetryCount) \cup { Absent } ]

\* str(e) of the exception that reached _process_queue.
ErrorMessages == { "Error en AI Orchestrator", "Documento descargado está vacío o es None" }

\* The original_queue argument when the caller gives none.
NoQueue == "None"

\* message_data.get("retry_count", 0)
get_retry_count(message_data) ==
    IF message_data.retry_count = Absent THEN 0 ELSE message_data.retry_count

\* move_to_failed_queue: the dict sent to the failed-processing queue.
failed_message(message_data, error_message, original_queue) ==
    [ job_id |-> message_data.job_id,
      processing_mode |-> message_data.processing_mode,
      persistencia |-> message_data.persistencia,
      failed_at |-> "utcnow",
      error_message |-> error_message,
      original_queue |-> IF original_queue # NoQueue THEN original_queue
                         ELSE DocumentProcessingQueue,
      retry_count |-> get_retry_count(message_data) + 1 ]

\* Nothing has been sent to the failed-processing queue.
NoMessage ==
    [ job_id |-> 0, processing_mode |-> "", persistencia |-> "",
      failed_at |-> "", error_message |-> "", original_queue |-> "",
      retry_count |-> 0 ]

\* A message has been received from the configured queue and its handling
\* has raised.
InitDeadLetter ==
    /\ WorkerOff
    /\ jst = JstOff
    /\ casc = CascOff
    /\ orch = OrchOff
    /\ disp = DispOff
    /\ reader = ReaderOff
    /\ cons = ConsOff
    /\ mrg = MrgOff
    /\ route = RouteOff
    /\ pp = PpOff
    /\ \E q \in QueueNames, c \in MessageContents, err \in ErrorMessages :
        dl = [ phase |-> "raised", received_from |-> q, content |-> c,
               error |-> err,
               failed |-> NoMessage ]

\* _process_queue, line 108: move_to_failed_queue(content, str(e)), with no
\* original_queue argument.
MoveToFailedQueue ==
    /\ dl.phase = "raised"
    /\ dl' = [ dl EXCEPT !.phase = "dead_lettered",
                         !.failed = failed_message(dl.content, dl.error, NoQueue) ]
    /\ UNCHANGED << workerVars, disp, jst, casc, orch, reader, cons, mrg, route, pp >>

NextDeadLetter == MoveToFailedQueue

SpecDeadLetter == InitDeadLetter /\ [][NextDeadLetter]_vars

\* C19: every dead-letter message has the fields of the original message
\* unchanged, plus failed_at, error_message, original_queue naming the queue
\* the message was received from, and retry_count equal to the original's
\* retry_count (0 if absent) plus one.
C19_DeadLetterFields ==
    dl.phase = "dead_lettered" =>
        /\ dl.failed.job_id = dl.content.job_id
        /\ dl.failed.processing_mode = dl.content.processing_mode
        /\ dl.failed.persistencia = dl.content.persistencia
        /\ dl.failed.failed_at = "utcnow"
        /\ dl.failed.error_message = dl.error
        /\ dl.failed.original_queue = dl.received_from
        /\ dl.failed.retry_count
              = (IF dl.content.retry_count = Absent THEN 0
                 ELSE dl.content.retry_count) + 1

----------------------------------------------------------------------------
(* SpecPersistence: the worker's reading of the message's persistencia *)

\* Characters are one-character strings; a string is a sequence of them.
UpperCase == << "F", "A", "L", "S", "E", "N", "O", "T", "R", "U", "Y" >>
LowerCase == << "f", "a", "l", "s", "e", "n", "o", "t", "r", "u", "y" >>

\* str.lower() on one character: letters with a lower-case form are
\* replaced by it, every other character is kept.
to_lower(c) ==
    IF \E i \in DOMAIN UpperCase : UpperCase[i] = c
    THEN LowerCase[CHOOSE i \in DOMAIN UpperCase : UpperCase[i] = c]
    ELSE c

\* str.lower()
lower(str) == [ i \in 1 .. Len(str) |-> to_lower(str[i]) ]

\* The list the worker compares against: ['false', '0', 'no', 'off'].
FalseWords ==
    { << "f", "a", "l", "s", "e" >>, << "0" >>, << "n", "o" >>,
      << "o", "f", "f" >> }

\* Other words a message may carry.
OtherWords ==
    { << "t", "r", "u", "e" >>, << "1" >>, << "y", "e", "s" >>,
      << "o", "n" >>, << >>, << "f" >>, << "o", "f" >>,
      << "f", "a", "l", "s" >>, << "f", "a", "l", "s", "e", "e" >>,
      << " ", "n", "o" >>, << "0", "0" >> }

\* Two characters that are the same letter in either case.
SameLetter(a, b) ==
    a = b \/ \E i \in DOMAIN UpperCase : { a, b } = { UpperCase[i], LowerCase[i] }

\* The upper-case form of a character, where it has one.
to_upper(c) ==
    IF \E i \in DOMAIN LowerCase : LowerCase[i] = c
    THEN UpperCase[CHOOSE i \in DOMAIN LowerCase : LowerCase[i] = c]
    ELSE c

\* Every spelling of a word in upper and lower case.
CaseVariants(word) ==
    { [ i \in DOMAIN word |-> IF i \in up THEN to_upper(word[i]) ELSE word[i] ] :
        up \in SUBSET DOMAIN word }

Strings == UNION { CaseVariants(word) : word \in FalseWords \cup OtherWords }

\* content.get('persistencia'): None when the key is absent, else the JSON
\* value, which is a string, a boolean or a number.
RawValues ==
    { [ type |-> "none", str |-> << >>, bool |-> FALSE, int |-> 0 ] }
    \cup { [ type |-> "str", str |-> x, bool |-> FALSE, int |-> 0 ] : x \in Strings }
    \cup { [ type |-> "bool", str |-> << >>, bool |-> b, int |-> 0 ] : b \in BOOLEAN }
    \cup { [ type |-> "int", str |-> << >>, bool |-> FALSE, int |-> n ] : n \in { 0, 1 } }

\* The conversion with the comparison made on the string as received.
parse_persistencia_CaseSensitive(raw) ==
    CASE raw.type = "none" -> TRUE
      [] raw.type = "str"  -> raw.str \notin FalseWords
      [] raw.type = "bool" -> raw.bool
      [] OTHER             -> TRUE

\* Step 9 of _process_document: the conversion of persistencia_raw.
parse_persistencia(raw) ==
    CASE raw.type = "none" -> TRUE
      [] raw.type = "str"  -> lower(raw.str) \notin FalseWords
      [] raw.type = "bool" -> raw.bool
      [] OTHER             -> TRUE

\* The worker has a message whose persistencia is any raw value.
InitPersistence ==
    /\ WorkerOff
    /\ jst = JstOff
    /\ casc = CascOff
    /\ orch = OrchOff
    /\ disp = DispOff
    /\ reader = ReaderOff
    /\ cons = ConsOff
    /\ mrg = MrgOff
    /\ route = RouteOff
    /\ dl = DlOff
    /\ \E raw \in RawValues :
        pp = [ phase |-> "raw", raw |-> raw, persistencia |-> TRUE ]

ParsePersistencia ==
    /\ pp.phase = "raw"
    /\ pp' = [ pp EXCEPT !.phase = "parsed",
                         !.persistencia = parse_persistencia(pp.raw) ]
    /\ UNCHANGED << workerVars, disp, jst, casc, orch, reader, cons, mrg, route, dl >>

NextPersistence == ParsePersistencia

SpecPersistence == InitPersistence /\ [][NextPersistence]_vars

\* The string is one of "false", "0", "no", "off" in some letter case.
SaysFalse(str) ==
    \E word \in FalseWords :
        /\ Len(str) = Len(word)
        /\ \A i \in DOMAIN word : SameLetter(str[i], word[i])

\* C20: the persistence value is parsed case-insensitively: "false", "0",
\* "no" and "off" in any letter case mean false; every other string, and an
\* absent value, mean true.
C20_PersistenceParsed ==
    pp.phase = "parsed" =>
        /\ pp.raw.type = "str"  => (pp.persistencia <=> ~SaysFalse(pp.raw.str))
        /\ pp.raw.type = "none" => pp.persistencia

\* A string that is not in lower case has been parsed as false.
C20_Witness ==
    /\ pp.phase = "parsed"
    /\ pp.raw.type = "str"
    /\ lower(pp.raw.str) # pp.raw.str
    /\ ~pp.persistencia

----------------------------------------------------------------------------
(* SpecJobStore: the jobs container under the adapter's and the worker's *)
(* status writes                                                          *)

\* JSON values, tagged with their type so that any two can be compared.
Str(x) == << "str", x >>

Num(n) == << "num", n >>

Dict(d) == << "dict", d >>

\* Python None.
PyNone == << "none" >>

\* The dict has no such key.
NoKey == << "nokey" >>

\* The keys a job record can carry in this model; document_name and priority
\* stand for the descriptive fields no status write is meant to touch.
JobFields ==
    { "id", "job_id", "status", "progress", "created_at", "updated_at",
      "document_name", "priority", "document_id", "extraction_id",
      "current_step", "started_at", "completed_at", "processing_time_ms",
      "fields_extracted", "failed_at", "error_message" }

EmptyDict == [ f \in JobFields |-> NoKey ]

\* {**base, **over}: the keys of over win.
dict_update(base, over) ==
    [ f \in JobFields |-> IF over[f] # NoKey THEN over[f] ELSE base[f] ]

\* The job_id the dispatcher puts in the record and in the queue message.
MessageJobId == "uuid4_a"

\* "job_" + uuid4: the ids create_processing_job assigns, one per call.
NewDbId(items) == IF Len(items) = 0 THEN "job_uuid4_b" ELSE "job_uuid4_c"

\* datetime.utcnow().isoformat() at creation and at a later write.
CreatedAt == Str("t0")

UtcNow == Str("t1")

\* DocumentService._process_asynchronously: the job_info of a queued job.
DispatcherJobInfo ==
    [ EmptyDict EXCEPT !["job_id"] = Str(MessageJobId),
                       !["document_name"] = Str("invoice.pdf"),
                       !["status"] = Str("pending"),
                       !["created_at"] = CreatedAt ]

\* test_job_operations: a job_info without job_id and status.
TestJobInfo ==
    [ EmptyDict EXCEPT !["document_id"] = Str("doc_test_123"),
                       !["priority"] = Str("normal") ]

\* A job_info that already carries the fields a status write sets.
UpdatedJobInfo ==
    [ DispatcherJobInfo EXCEPT !["updated_at"] = CreatedAt,
                               !["progress"] = Num(0),
                               !["current_step"] = Str("queued") ]

JobInfos == { DispatcherJobInfo, TestJobInfo, UpdatedJobInfo }

\* CosmosService.create_processing_job: the item gets a fresh id and is
\* inserted; the id is returned.
Cosmos_create_processing_job(items, job_info) ==
    [ id |-> NewDbId(items),
      items |-> Append(items, [ job_info EXCEPT !["id"] = Str(NewDbId(items)) ]) ]

\* SELECT * FROM c WHERE c.id = @job_id
query_by_id(items, key) == { i \in DOMAIN items : items[i]["id"] = Str(key) }

\* An update that writes status and progress and drops the other fields given.
Cosmos_update_job_status_full_NoKwargs(items, key, status, progress, kwargs) ==
    LET results == query_by_id(items, key)
    IN  IF results = {}
        THEN [ ok |-> FALSE, items |-> items ]
        ELSE LET i == CHOOSE x \in results : \A y \in results : x <= y
                 job == [ items[i] EXCEPT
                            !["status"] = Str(status),
                            !["updated_at"] = UtcNow,
                            !["progress"] = IF progress # PyNone THEN progress ELSE @ ]
             IN  [ ok |-> TRUE, items |-> [ items EXCEPT ![i] = job ] ]

\* CosmosService.update_job_status(job_id, status, progress=None, **kwargs):
\* read the item whose id is job_id, set status, updated_at, progress when
\* given and every keyword field, and replace the item.
Cosmos_update_job_status_full(items, key, status, progress, kwargs) ==
    LET results == query_by_id(items, key)
    IN  IF results = {}
        THEN [ ok |-> FALSE, items |-> items ]
        ELSE LET i == CHOOSE x \in results : \A y \in results : x <= y
                 job == [ items[i] EXCEPT
                            !["status"] = Str(status),
                            !["updated_at"] = UtcNow,
                            !["progress"] = IF progress # PyNone THEN progress ELSE @ ]
             IN  [ ok |-> TRUE,
                   items |-> [ items EXCEPT ![i] = dict_update(job, kwargs) ] ]

\* CosmosService.get_job_status: the item whose id is job_id, or None.
Cosmos_get_job_status(items, key) ==
    LET results == query_by_id(items, key)
    IN  IF results = {} THEN PyNone
        ELSE items[CHOOSE x \in results : \A y \in results : x <= y]

\* get_processing_job: the record whose job_id field is the given job_id, or
\* None.
get_processing_job_record(items, job_id) ==
    LET results == { i \in DOMAIN items : items[i]["job_id"] = Str(job_id) }
    IN  IF results = {} THEN PyNone
        ELSE items[CHOOSE x \in results : \A y \in results : x <= y]

\* The arguments of one call of BackgroundWorker._update_job_status.
WorkerCalls ==
    [ status : { "processing" }, error_message : { PyNone },
      processing_time_ms : { PyNone }, fields_extracted : { PyNone },
      document_id : { PyNone }, extraction_id : { PyNone } ]
    \cup
    [ status : { "completed" }, error_message : { PyNone },
      processing_time_ms : { Num(0), Num(1200) },
      fields_extracted : { Num(0), Num(2) },
      document_id : { Str("doc_uuid4") }, extraction_id : { Str("ext_uuid4") } ]
    \cup
    [ status : { "failed" },
      error_message : { Str("Error en AI Orchestrator"), Str("Job incompleto") },
      processing_time_ms : { PyNone }, fields_extracted : { PyNone },
      document_id : { PyNone }, extraction_id : { PyNone } ]

\* "x or 0"
or_zero(x) == IF x = PyNone THEN Num(0) ELSE x

\* _update_job_status, lines 653-673: update_data for an existing job.
update_data(c) ==
    LET base == [ EmptyDict EXCEPT !["status"] = Str(c.status),
                                   !["updated_at"] = UtcNow ]
    IN  CASE c.status = "completed" ->
               [ base EXCEPT !["completed_at"] = UtcNow,
                             !["processing_time_ms"] = or_zero(c.processing_time_ms),
                             !["fields_extracted"] = or_zero(c.fields_extracted),
                             !["document_id"] = c.document_id,
                             !["extraction_id"] = c.extraction_id ]
          [] c.status = "failed" ->
               [ base EXCEPT !["failed_at"] = UtcNow,
                             !["error_message"] = c.error_message ]
          [] c.status = "processing" ->
               [ base EXCEPT !["started_at"] = UtcNow ]
          [] OTHER -> base

\* _update_job_status, lines 688-704: job_info when no job is found.
new_job_info(job_id, c) ==
    LET base == [ EmptyDict EXCEPT !["job_id"] = Str(job_id),
                                   !["document_name"] = Str("unknown"),
                                   !["status"] = Str(c.status),
                                   !["created_at"] = UtcNow,
                                   !["updated_at"] = UtcNow ]
    IN  IF c.status = "completed"
        THEN [ base EXCEPT !["completed_at"] = UtcNow,
                           !["processing_time_ms"] = or_zero(c.processing_time_ms),
                           !["fields_extracted"] = or_zero(c.fields_extracted) ]
        ELSE base

\* BackgroundWorker._update_job_status: look the job up by job_id; when it
\* exists call update_job_status(job_id, status, update_data), the dict going
\* to the third positional parameter, progress; otherwise create a record.
\* A False result raises inside the method's own try and is only logged.
Worker_update_job_status_full(items, job_id, c) ==
    IF get_processing_job_record(items, job_id) # PyNone
    THEN Cosmos_update_job_status_full(items, job_id, c.status,
                                       Dict(update_data(c)), EmptyDict)
    ELSE [ ok |-> TRUE,
           items |-> Cosmos_create_processing_job(items, new_job_info(job_id, c)).items ]

\* Keyword fields of a direct call of the adapter.
KwargsChoices ==
    { EmptyDict,
      [ EmptyDict EXCEPT !["current_step"] = Str("AI processing") ],
      [ EmptyDict EXCEPT !["current_step"] = Str("AI processing"),
                         !["priority"] = Str("high") ] }

ProgressChoices == { PyNone, Num(50), Num(100) }

NoCall == [ caller |-> "none" ]

\* The container is empty, or one job has been created with
\* create_processing_job.
InitJobStore ==
    /\ WorkerOff
    /\ reader = ReaderOff
    /\ cons = ConsOff
    /\ mrg = MrgOff
    /\ route = RouteOff
    /\ dl = DlOff
    /\ pp = PpOff
    /\ casc = CascOff
    /\ orch = OrchOff
    /\ disp = DispOff
    /\ \E items \in { << >> } \cup
                    { Cosmos_create_processing_job(<< >>, info).items : info \in JobInfos } :
        jst = [ phase |-> "created", items |-> items, before |-> items,
                call |-> NoCall, ok |-> FALSE ]

\* A caller of the adapter (as test_job_operations) updates the job, giving
\* the id create_processing_job returned or the job_id of the message.
AdapterUpdate ==
    /\ jst.phase = "created"
    /\ Len(jst.items) = 1
    /\ \E key \in { jst.items[1]["id"][2], MessageJobId },
          status \in { "processing", "completed", "failed" },
          progress \in ProgressChoices, kwargs \in KwargsChoices :
        LET r == Cosmos_update_job_status_full(jst.items, key, status, progress, kwargs)
        IN  jst' = [ phase |-> "updated", items |-> r.items, before |-> jst.items,
                     call |-> [ caller |-> "adapter", key |-> key, status |-> status,
                                progress |-> progress, kwargs |-> kwargs ],
                     ok |-> r.ok ]
    /\ UNCHANGED << workerVars, disp, reader, cons, mrg, route, dl, pp, casc, orch >>

\* The worker writes a status for the job_id of the message it handles.
WorkerUpdate ==
    /\ jst.phase = "created"
    /\ \E c \in WorkerCalls :
        LET r == Worker_update_job_status_full(jst.items, MessageJobId, c)
        IN  jst' = [ phase |-> "updated", items |-> r.items, before |-> jst.items,
                     call |-> [ caller |-> "worker", job_id |-> MessageJobId, args |-> c ],
                     ok |-> r.ok ]
    /\ UNCHANGED << workerVars, disp, reader, cons, mrg, route, dl, pp, casc, orch >>

NextJobStore == AdapterUpdate \/ WorkerUpdate

SpecJobStore == InitJobStore /\ [][NextJobStore]_vars

\* The worker has made a status write for the job_id of its message.
WorkerWrote == jst.phase = "updated" /\ jst.call.caller = "worker"

\* C22: when the worker marks a job completed, the stored job record carries,
\* as its own fields, status completed, completed_at, processing_time_ms,
\* fields_extracted and the ids of its document and extraction records; when
\* it marks a job failed, the record carries failed_at and error_message.
C22_StatusFieldsOnRecord ==
    WorkerWrote =>
        LET c == jst.call.args
            job == get_processing_job_record(jst.items, jst.call.job_id)
        IN  /\ c.status = "completed" =>
                /\ job # PyNone
                /\ job["status"] = Str("completed")
                /\ job["completed_at"] = UtcNow
                /\ job["processing_time_ms"] = c.processing_time_ms
                /\ job["fields_extracted"] = c.fields_extracted
                /\ job["document_id"] = c.document_id
                /\ job["extraction_id"] = c.extraction_id
            /\ c.status = "failed" =>
                /\ job # PyNone
                /\ job["status"] = Str("failed")
                /\ job["failed_at"] = UtcNow
                /\ job["error_message"] = c.error_message

\* C23: the record created for job_id J is the record the worker updates
\* while handling the message carrying J: the status the worker has written
\* for J is the status a read for J returns.
C23_WorkerWriteIsRead ==
    (WorkerWrote /\ get_processing_job_record(jst.before, jst.call.job_id) # PyNone)
        => get_processing_job_record(jst.items, jst.call.job_id)["status"]
              = Str(jst.call.args.status)

\* update_job_status has been called with the id create_processing_job
\* returned and with a progress.
UpdatedByReturnedId ==
    /\ jst.phase = "updated"
    /\ jst.call.caller = "adapter"
    /\ jst.call.key = jst.before[1]["id"][2]

\* The fields the call names: status, progress and the keyword fields.
NamedFields ==
    { "status", "progress" } \cup { f \in JobFields : jst.call.kwargs[f] # NoKey }

\* C24 (as stated): update_job_status with the returned id, a status, a
\* progress and extra fields returns true, and get_job_status with that id
\* returns the record with that status, progress and extra fields, every
\* other field being unchanged.
C24_UpdateAsStated ==
    (UpdatedByReturnedId /\ jst.call.progress # PyNone) =>
        LET job == Cosmos_get_job_status(jst.items, jst.call.key)
        IN  /\ jst.ok
            /\ job # PyNone
            /\ job["status"] = Str(jst.call.status)
            /\ job["progress"] = jst.call.progress
            /\ \A f \in NamedFields \ { "status", "progress" } :
                  job[f] = jst.call.kwargs[f]
            /\ \A f \in JobFields \ NamedFields : job[f] = jst.before[1][f]

\* C24 (as the code has it): the same, except that updated_at is also set,
\* to the time of the update, and that a call without progress leaves the
\* record's progress as it was.
C24_UpdateInCode ==
    UpdatedByReturnedId =>
        LET job == Cosmos_get_job_status(jst.items, jst.call.key)
        IN  /\ jst.ok
            /\ job # PyNone
            /\ job["status"] = Str(jst.call.status)
            /\ job["progress"] = IF jst.call.progress # PyNone
                                 THEN jst.call.progress
                                 ELSE jst.before[1]["progress"]
            /\ \A f \in NamedFields \ { "status", "progress" } :
                  job[f] = jst.call.kwargs[f]
            /\ "updated_at" \notin NamedFields => job["updated_at"] = UtcNow
            /\ \A f \in JobFields \ (NamedFields \cup { "updated_at" }) :
                  job[f] = jst.before[1][f]

\* A job that carried progress, current_step and updated_at has been updated
\* by its returned id with a progress and two keyword fields, one of them new
\* to the record.
C24_Witness ==
    /\ UpdatedByReturnedId
    /\ jst.call.progress = Num(50)
    /\ jst.call.kwargs["priority"] # NoKey
    /\ jst.before[1]["priority"] = NoKey
    /\ jst.before[1]["updated_at"] = CreatedAt
    /\ jst.items[1]["current_step"] # jst.before[1]["current_step"]

----------------------------------------------------------------------------
(* SpecCascade: the batches of pages the cascade sends to the backend *)

MaxPages == 11

\* The batch length of _process_with_openai_cascade and of
\* _process_cascade_batches.
BatchSize == 5

\* images: one image per page, in page order.
Images(n) == [ i \in 1 .. n |-> i ]

\* Python's seq[a:b] for 0 <= a <= b.
Slice(seq, a, b) ==
    LET hi == IF b < Len(seq) THEN b ELSE Len(seq)
    IN  IF a >= hi THEN << >> ELSE [ i \in 1 .. hi - a |-> seq[a + i] ]

\* A batching that starts each later batch one page early.
cascade_batch_Overlap(images, batch_idx) ==
    IF Len(images) <= BatchSize THEN images
    ELSE IF batch_idx = 0 THEN Slice(images, 0, BatchSize)
    ELSE Slice(images, batch_idx - 1, batch_idx + BatchSize)

\* The images of the call that starts at batch_idx: all of them for a
\* document of at most 5 pages, images[0:5] for the first batch of a larger
\* one and images[batch_idx:batch_idx + 5] for the later ones.
cascade_batch(images, batch_idx) ==
    IF Len(images) <= BatchSize THEN images
    ELSE IF batch_idx = 0 THEN Slice(images, 0, BatchSize)
    ELSE Slice(images, batch_idx, batch_idx + BatchSize)

\* _format_extraction_for_prompt: one line "- key: value" for every key that
\* is not reserved and whose value is not None.
format_extraction_for_prompt(extraction) ==
    { << k, extraction[k] >> : k \in { x \in MergeKeys \ ReservedKeys : extraction[x] > None } }

\* The first call carries no earlier extraction.
NoContext == { }

\* A reference prompt built from the first batch's extraction only.
reference_prompt_Baseline(baseline, base_extraction) ==
    format_extraction_for_prompt(baseline)

\* reference_prompt: the general prompt plus the formatted base_extraction,
\* which at that point is the accumulator of all earlier batches.
reference_prompt(baseline, base_extraction) ==
    format_extraction_for_prompt(base_extraction)

\* _process_single_batch: the backend's dict with pages_processed set to the
\* number of images of the batch.
single_batch_response(out, batch) ==
    [ out EXCEPT !["pages_processed"] = Len(batch) ]

\* A document of n pages has been converted to images.
InitCascade ==
    /\ WorkerOff
    /\ reader = ReaderOff
    /\ cons = ConsOff
    /\ mrg = MrgOff
    /\ route = RouteOff
    /\ dl = DlOff
    /\ pp = PpOff
    /\ jst = JstOff
    /\ orch = OrchOff
    /\ disp = DispOff
    /\ \E n \in 1 .. MaxPages :
        casc = [ phase |-> "ready", images |-> Images(n), batch_idx |-> 0,
                 batches |-> << >>, prompts |-> << >>, outputs |-> << >>,
                 baseline |-> [ k \in MergeKeys |-> Absent ],
                 base_extraction |-> [ k \in MergeKeys |-> Absent ] ]

\* The next call of _process_single_batch is made: the first one with the
\* general prompt, a later one with the reference prompt.
SendBatch ==
    /\ casc.phase = "ready"
    /\ casc' = [ casc EXCEPT
                   !.phase = "awaiting",
                   !.batches = Append(@, cascade_batch(casc.images, casc.batch_idx)),
                   !.prompts = Append(@, IF casc.batch_idx = 0 THEN NoContext
                                         ELSE reference_prompt(casc.baseline,
                                                               casc.base_extraction)) ]
    /\ UNCHANGED << workerVars, disp, reader, cons, mrg, route, dl, pp, jst, orch >>

\* The call returns a dict or raises. A returned dict is the result (small
\* document), the baseline (first batch) or is merged into base_extraction;
\* after the last batch pages_processed is set to len(images).
BatchReturns ==
    /\ casc.phase = "awaiting"
    /\ \/ casc' = [ casc EXCEPT !.phase = "raised" ]
       \/ \E out \in Extractions :
            LET batch == casc.batches[Len(casc.batches)]
                response == single_batch_response(out, batch)
                first == casc.batch_idx = 0
                merged == IF first THEN response
                          ELSE merge_extractions(casc.base_extraction,
                                                 [ is_dict |-> TRUE, kv |-> response ])
                next_idx == casc.batch_idx + BatchSize
                last == Len(casc.images) <= BatchSize \/ next_idx >= Len(casc.images)
            IN  casc' = [ casc EXCEPT
                            !.phase = IF last THEN "returned" ELSE "ready",
                            !.batch_idx = next_idx,
                            !.outputs = Append(@, response),
                            !.baseline = IF first THEN response ELSE @,
                            !.base_extraction =
                                IF last THEN [ merged EXCEPT !["pages_processed"] =
                                                                Len(casc.images) ]
                                ELSE merged ]
    /\ UNCHANGED << workerVars, disp, reader, cons, mrg, route, dl, pp, jst, orch >>

NextCascade == SendBatch \/ BatchReturns

SpecCascade == InitCascade /\ [][NextCascade]_vars

RECURSIVE Concat(_)
\* The batches laid end to end.
Concat(seqs) ==
    IF seqs = << >> THEN << >> ELSE Head(seqs) \o Concat(Tail(seqs))

\* C25: for a document of n >= 1 pages, with n <= 5 exactly one backend call
\* is made, with all pages; with n > 5, ceil(n/5) calls are made on
\* consecutive batches of 5 pages (the last possibly shorter), every page is
\* sent in exactly one batch, in page order; the result has
\* pages_processed = n.
C25_BatchesCoverPages ==
    casc.phase = "returned" =>
        LET n == Len(casc.images)
            calls == Len(casc.batches)
        IN  /\ n <= 5 => calls = 1 /\ casc.batches[1] = casc.images
            /\ n > 5 =>
                /\ calls = (n + 4) \div 5
                /\ \A k \in 1 .. calls - 1 : Len(casc.batches[k]) = 5
                /\ Len(casc.batches[calls]) \in 1 .. 5
            /\ Concat(casc.batches) = casc.images
            /\ casc.base_extraction["pages_processed"] = n

\* A document of more than 10 pages whose last batch is shorter than 5 has
\* been processed.
C25_Witness ==
    /\ casc.phase = "returned"
    /\ Len(casc.images) > 10
    /\ Len(casc.batches[Len(casc.batches)]) < 5

RECURSIVE MergedUpTo(_, _)
\* The accumulator after the outputs of batches 1..k have been merged.
MergedUpTo(outputs, k) ==
    IF k = 1 THEN outputs[1]
    ELSE merge_extractions(MergedUpTo(outputs, k - 1),
                           [ is_dict |-> TRUE, kv |-> outputs[k] ])

----------------------------------------------------------------------------
(* SpecCalls: the order of the two backend calls in the dual strategies *)

\* A backend call: not made yet, scheduled by gather but not yet run,
\* running (made and not finished), or finished with a result or an
\* exception.
CallStates == { "not_issued", "scheduled", "running", "returned", "raised" }

Finished(c) == c \in { "returned", "raised" }

NoResult == [ exc |-> TRUE, vals |-> [ f \in Fields |-> None ] ]

\* A hybrid strategy that makes the second call without waiting for the first.
hybrid_may_call_di_Early(a) == a \in { "running", "returned" }

\* _process_hybrid_consensus awaits the first call before it makes the
\* second: the second is made once the first has returned.
hybrid_may_call_di(a) == a = "returned"

\* A gather that hands over as soon as one call has finished.
gather_done_First(a, b) == Finished(a) \/ Finished(b)

\* asyncio.gather(..., return_exceptions=True) returns when both calls have
\* finished, whether with a result or with an exception.
gather_done(a, b) == Finished(a) /\ Finished(b)

\* A request for one of the two dual strategies has reached its function.
InitCalls ==
    /\ WorkerOff
    /\ reader = ReaderOff
    /\ cons = ConsOff
    /\ mrg = MrgOff
    /\ route = RouteOff
    /\ dl = DlOff
    /\ pp = PpOff
    /\ jst = JstOff
    /\ casc = CascOff
    /\ disp = DispOff
    /\ \E m \in ConsensusModes :
        orch = [ phase |-> "called", mode |-> m,
                 a |-> "not_issued", b |-> "not_issued",
                 openai |-> NoResult, di |-> NoResult,
                 finished |-> << >>, extraction_data |-> NoFields ]

\* hybrid: openai_result = await self._process_with_openai(...), the call is
\* made.
HybridCallOpenAI ==
    /\ orch.phase = "called" /\ orch.mode = "hybrid_consensus"
    /\ orch.a = "not_issued"
    /\ orch' = [ orch EXCEPT !.a = "running" ]
    /\ UNCHANGED << workerVars, disp, reader, cons, mrg, route, dl, pp, jst, casc >>

\* hybrid: the first call returns its dict, or raises and the exception
\* leaves _process_hybrid_consensus.
HybridOpenAIDone ==
    /\ orch.phase = "called" /\ orch.mode = "hybrid_consensus"
    /\ orch.a = "running"
    /\ \E r \in BackendResults :
        orch' = [ orch EXCEPT !.a = IF r.exc THEN "raised" ELSE "returned",
                              !.openai = r,
                              !.finished = Append(@, "openai"),
                              !.phase = IF r.exc THEN "raised" ELSE @ ]
    /\ UNCHANGED << workerVars, disp, reader, cons, mrg, route, dl, pp, jst, casc >>

\* hybrid: doc_intelligence_result = await
\* self._process_with_document_intelligence(...), the call is made.
HybridCallDI ==
    /\ orch.phase = "called" /\ orch.mode = "hybrid_consensus"
    /\ orch.b = "not_issued"
    /\ hybrid_may_call_di(orch.a)
    /\ orch' = [ orch EXCEPT !.b = "running" ]
    /\ UNCHANGED << workerVars, disp, reader, cons, mrg, route, dl, pp, jst, casc >>

\* hybrid: the second call returns or raises.
HybridDIDone ==
    /\ orch.phase = "called" /\ orch.mode = "hybrid_consensus"
    /\ orch.b = "running"
    /\ \E r \in BackendResults :
        orch' = [ orch EXCEPT !.b = IF r.exc THEN "raised" ELSE "returned",
                              !.di = r,
                              !.finished = Append(@, "di"),
                              !.phase = IF r.exc THEN "raised" ELSE @ ]
    /\ UNCHANGED << workerVars, disp, reader, cons, mrg, route, dl, pp, jst, casc >>

\* hybrid: the per-field loop over the two results.
HybridConsensus ==
    /\ orch.phase = "called" /\ orch.mode = "hybrid_consensus"
    /\ orch.a = "returned" /\ orch.b = "returned"
    /\ orch' = [ orch EXCEPT
                   !.phase = "returned",
                   !.extraction_data =
                       [ f \in Fields |->
                           hybrid_consensus_field(get_field_value(orch.openai, f),
                                                  get_field_value(orch.di, f)) ] ]
    /\ UNCHANGED << workerVars, disp, reader, cons, mrg, route, dl, pp, jst, casc >>

\* dual: the two coroutines are created and handed to asyncio.gather, which
\* schedules both as tasks, the OpenAI one first.
Gather ==
    /\ orch.phase = "called" /\ orch.mode = "dual_service"
    /\ orch.a = "not_issued"
    /\ orch' = [ orch EXCEPT !.a = "scheduled", !.b = "scheduled" ]
    /\ UNCHANGED << workerVars, disp, reader, cons, mrg, route, dl, pp, jst, casc >>

\* dual: the OpenAI task runs up to the await of its HTTP request, or raises
\* before it gets there.
DualOpenAIStart ==
    /\ orch.phase = "called" /\ orch.mode = "dual_service"
    /\ orch.a = "scheduled"
    /\ \/ orch' = [ orch EXCEPT !.a = "running" ]
       \/ orch' = [ orch EXCEPT !.a = "raised",
                                !.finished = Append(@, "openai") ]
    /\ UNCHANGED << workerVars, disp, reader, cons, mrg, route, dl, pp, jst, casc >>

\* dual: the Document Intelligence task starts when the OpenAI task has
\* yielded; it calls the synchronous SDK (begin_analyze_document,
\* poller.result()) and so holds the event loop until it is done.
DualDIStart ==
    /\ orch.phase = "called" /\ orch.mode = "dual_service"
    /\ orch.b = "scheduled" /\ orch.a # "scheduled"
    /\ orch' = [ orch EXCEPT !.b = "running" ]
    /\ UNCHANGED << workerVars, disp, reader, cons, mrg, route, dl, pp, jst, casc >>

DualDIDone ==
    /\ orch.phase = "called" /\ orch.mode = "dual_service"
    /\ orch.b = "running"
    /\ \E r \in BackendResults :
        orch' = [ orch EXCEPT !.b = IF r.exc THEN "raised" ELSE "returned",
                              !.di = r,
                              !.finished = Append(@, "di") ]
    /\ UNCHANGED << workerVars, disp, reader, cons, mrg, route, dl, pp, jst, casc >>

\* dual: the OpenAI task is resumed when its response has come and the event
\* loop is free.
DualOpenAIDone ==
    /\ orch.phase = "called" /\ orch.mode = "dual_service"
    /\ orch.a = "running" /\ Finished(orch.b)
    /\ \E r \in BackendResults :
        orch' = [ orch EXCEPT !.a = IF r.exc THEN "raised" ELSE "returned",
                              !.openai = r,
                              !.finished = Append(@, "openai") ]
    /\ UNCHANGED << workerVars, disp, reader, cons, mrg, route, dl, pp, jst, casc >>

\* dual: gather has returned both outcomes, in argument order; one consensus
\* field per requested field.
DualConsensus ==
    /\ orch.phase = "called" /\ orch.mode = "dual_service"
    /\ gather_done(orch.a, orch.b)
    /\ orch' = [ orch EXCEPT
                   !.phase = "returned",
                   !.extraction_data =
                       [ f \in Fields |->
                           create_consensus_field(dual_value(orch.openai, f),
                                                  dual_value(orch.di, f)) ] ]
    /\ UNCHANGED << workerVars, disp, reader, cons, mrg, route, dl, pp, jst, casc >>

NextCalls ==
    \/ HybridCallOpenAI
    \/ HybridOpenAIDone
    \/ HybridCallDI
    \/ HybridDIDone
    \/ HybridConsensus
    \/ Gather
    \/ DualOpenAIStart
    \/ DualDIStart
    \/ DualDIDone
    \/ DualOpenAIDone
    \/ DualConsensus

SpecCalls == InitCalls /\ [][NextCalls]_vars

\* C28: in hybrid_consensus the two backends are called one after the other
\* and never concurrently: the second call has been made only if the first
\* has returned.
C28_HybridSequential ==
    orch.mode = "hybrid_consensus" =>
        /\ orch.b # "not_issued" => orch.a = "returned"
        /\ ~(orch.a = "running" /\ orch.b = "running")

\* The second call of hybrid_consensus is running, after the first returned.
C28_Witness ==
    /\ orch.mode = "hybrid_consensus"
    /\ orch.a = "returned"
    /\ orch.b = "running"

\* C29: in the parallel dual strategy both calls are issued together, the
\* consensus step runs only after both have finished (returned or failed),
\* and the resulting fields and review flags are the ones the two outcomes
\* give, whichever call finished first.
C29_DualConcurrent ==
    orch.mode = "dual_service" =>
        /\ orch.a = "not_issued" <=> orch.b = "not_issued"
        /\ orch.phase = "returned" =>
            /\ Finished(orch.a) /\ Finished(orch.b)
            /\ \A f \in Fields :
                orch.extraction_data[f]
                  = create_consensus_field(dual_value(orch.openai, f),
                                           dual_value(orch.di, f))

\* Both calls of the dual strategy are under way at the same time.
C29_Witness ==
    /\ orch.mode = "dual_service"
    /\ orch.a = "running"
    /\ orch.b = "running"

----------------------------------------------------------------------------
(* SpecDispatch: one request on the asynchronous path, step by step, next to
   a worker that polls the queue *)

\* What QueueStorageService.send_message can do: store the message and return
\* its id, or return None (service not available, message over 64 KB, error
\* raised by the send).
SendOutcomes == { "sent", "unavailable", "too_large", "send_error" }

\* QueueStorageService.send_message(message_data, queue_name)
send_message(ms, j, out) ==
    IF out = "sent"
    THEN [ msgs |-> [ ms EXCEPT ![j] = [ state |-> "visible", receipt |-> 0 ] ],
           message_id |-> "uuid4" ]
    ELSE [ msgs |-> ms, message_id |-> "None" ]

\* _process_asynchronously is entered for a new job_id: nothing is stored yet.
InitDispatch ==
    /\ WorkerOff
    /\ reader = ReaderOff
    /\ cons = ConsOff
    /\ mrg = MrgOff
    /\ route = RouteOff
    /\ dl = DlOff
    /\ pp = PpOff
    /\ jst = JstOff
    /\ casc = CascOff
    /\ orch = OrchOff
    /\ \E j \in Jobs, qn \in QueueNames :
        disp = [ phase |-> "upload", j |-> j, queue_name |-> qn,
                 msgs |-> [ i \in Jobs |-> [ state |-> "absent", receipt |-> 0 ] ],
                 jobs |-> [ i \in Jobs |-> [ status |-> "not_found" ] ],
                 blob |-> FALSE, message_id |-> "none", response |-> "none",
                 wpc |-> "idle", wreceipt |-> 0, wresult |-> "none",
                 deliveries |-> 0 ]

\* lines 523-551: upload the document; no blob_path raises.
DispUpload ==
    /\ disp.phase = "upload"
    /\ \E ok \in BOOLEAN :
        disp' = IF ok
                THEN [ disp EXCEPT !.blob = TRUE, !.phase = "send" ]
                ELSE [ disp EXCEPT !.phase = "raised", !.response = "error" ]
    /\ UNCHANGED << workerVars, reader, cons, mrg, route, dl, pp, jst, casc, orch >>

\* lines 553-576: build the queue message and await send_message; what it
\* returns is not assigned or tested.
DispSend ==
    /\ disp.phase = "send"
    /\ \E out \in SendOutcomes :
        LET r == send_message(disp.msgs, disp.j, out)
        IN  disp' = [ disp EXCEPT !.msgs = r.msgs, !.message_id = r.message_id,
                                  !.phase = "create" ]
    /\ UNCHANGED << workerVars, reader, cons, mrg, route, dl, pp, jst, casc, orch >>

\* lines 599-634: create the job record with status "pending"; None from
\* create_processing_job raises.
DispCreateJob ==
    /\ disp.phase = "create"
    /\ \E ok \in BOOLEAN :
        disp' = IF ok
                THEN [ disp EXCEPT !.jobs = create_processing_job(disp.jobs, disp.j, "pending"),
                                   !.phase = "return" ]
                ELSE [ disp EXCEPT !.phase = "raised", !.response = "error" ]
    /\ UNCHANGED << workerVars, reader, cons, mrg, route, dl, pp, jst, casc, orch >>

\* lines 636-652: save_job_status (a stub) and return the response built at
\* lines 579-594, whose processing_status is PENDING.
DispReturn ==
    /\ disp.phase = "return"
    /\ disp' = [ disp EXCEPT !.phase = "returned", !.response = "pending" ]
    /\ UNCHANGED << workerVars, reader, cons, mrg, route, dl, pp, jst, casc, orch >>

\* _process_queue, lines 66-87: the worker receives the message.
DispWorkerReceive ==
    /\ disp.phase # "off"
    /\ disp.wpc = "idle"
    /\ disp.deliveries < MaxDeliveries
    /\ disp.msgs[disp.j].state = "visible"
    /\ disp' = [ disp EXCEPT !.msgs = receive_message(disp.msgs, disp.j),
                             !.wreceipt = disp.msgs[disp.j].receipt + 1,
                             !.wpc = "guard", !.wresult = "none",
                             !.deliveries = @ + 1 ]
    /\ UNCHANGED << workerVars, reader, cons, mrg, route, dl, pp, jst, casc, orch >>

\* _process_document step 0: any status but "pending" returns 'skipped'.
DispWorkerGuard ==
    /\ disp.phase # "off"
    /\ disp.wpc = "guard"
    /\ disp' = IF Worker_get_job_status(disp.jobs, disp.j) = "pending"
               THEN [ disp EXCEPT !.wpc = "process" ]
               ELSE [ disp EXCEPT !.wpc = "ack", !.wresult = "skipped" ]
    /\ UNCHANGED << workerVars, reader, cons, mrg, route, dl, pp, jst, casc, orch >>

\* _process_document steps 1-9 as one step: the message has been handled,
\* with one result or the other.
DispWorkerProcess ==
    /\ disp.phase # "off"
    /\ disp.wpc = "process"
    /\ \E r \in { "completed", "failed" } :
        disp' = [ disp EXCEPT !.wpc = "ack", !.wresult = r ]
    /\ UNCHANGED << workerVars, reader, cons, mrg, route, dl, pp, jst, casc, orch >>

\* _process_queue, lines 94-111: delete_message(message_id, pop_receipt).
DispWorkerAck ==
    /\ disp.phase # "off"
    /\ disp.wpc = "ack"
    /\ disp' = [ disp EXCEPT
                    !.msgs = delete_message(disp.msgs, disp.queue_name, disp.j,
                                            disp.wreceipt),
                    !.wpc = "idle" ]
    /\ UNCHANGED << workerVars, reader, cons, mrg, route, dl, pp, jst, casc, orch >>

\* The 60 s lease of a received message runs out.
DispLeaseExpire ==
    /\ disp.phase # "off"
    /\ disp.deliveries < MaxDeliveries
    /\ disp.msgs[disp.j].state = "leased"
    /\ disp' = [ disp EXCEPT !.msgs[disp.j].state = "visible" ]
    /\ UNCHANGED << workerVars, reader, cons, mrg, route, dl, pp, jst, casc, orch >>

NextDispatch ==
    \/ DispUpload
    \/ DispSend
    \/ DispCreateJob
    \/ DispReturn
    \/ DispWorkerReceive
    \/ DispWorkerGuard
    \/ DispWorkerProcess
    \/ DispWorkerAck
    \/ DispLeaseExpire

SpecDispatch == InitDispatch /\ [][NextDispatch]_vars

\* C39: the job record with status "pending" exists before its message can
\* be received: the guard of a worker that dequeued the message finds the job
\* pending, not missing, and no message has been skipped and removed while
\* its job is (now) pending.
C39_JobBeforeMessage ==
    /\ disp.wpc = "guard"
        => Worker_get_job_status(disp.jobs, disp.j) = "pending"
    /\ ~ ( /\ disp.wresult = "skipped"
           /\ disp.msgs[disp.j].state = "absent"
           /\ disp.jobs[disp.j].status = "pending" )

\* C39 (the loss alone): no message is skipped and removed from the queue
\* while the job it belongs to ends up pending.
C39_NoPendingJobDropped ==
    ~ ( /\ disp.wresult = "skipped"
        /\ disp.msgs[disp.j].state = "absent"
        /\ disp.jobs[disp.j].status = "pending"
        /\ disp.response = "pending" )

\* C40: the asynchronous path returns a response with status pending only if
\* the message was enqueued, and when the enqueueing failed the request has
\* failed and no pending job record is left for the job.
C40_PendingOnlyIfEnqueued ==
    /\ disp.response = "pending" => disp.message_id = "uuid4"
    /\ (disp.phase \in { "returned", "raised" } /\ disp.message_id # "uuid4")
        => /\ disp.response = "error"
           /\ disp.jobs[disp.j].status # "pending"

====
